---- MODULE Spec2Model ----
(***************************************************************************)
(* Model of the cube application: the move transform engine                *)
(* (animations.js), the replay drivers of CubePage.js, the grid            *)
(* consistency corrector of CubeRecognition.js and the capture flow of     *)
(* camera.js.                                                              *)
(*                                                                         *)
(* JavaScript arrays are modelled as functions over 0..n-1, so that an     *)
(* index of the source is the same index here; objects are records.        *)
(* A move string is the sequence of its characters.                        *)
(***************************************************************************)
EXTENDS Integers, Sequences, FiniteSets, TLC

VARIABLES
    cube,       \* CubePage: localCubeData, the state the moves are applied to
    start,      \* history: the state before the first move
    done,       \* history: the moves applied so far, oldest first
    script,     \* replay: the moves still to be applied (startSolvingAnimation)
    prev,       \* history: the state passed to the last call of the move engine
    lastError   \* the outcome of the last call of the move engine

cubeVars == <<cube, start, done, script, prev, lastError>>

VARIABLES
    heap,       \* the JavaScript heap: the objects and arrays of the cube states
    localRef,   \* CubePage: the object localCubeData refers to
    oldRef,     \* history: the object passed to the last call of the move engine
    oldValue,   \* history: the value of that object when it was passed
    calls,      \* history: the number of calls made
    written     \* history: the caller has written into the returned object

heapVars == <<heap, localRef, oldRef, oldValue, calls, written>>

VARIABLES
    grid,       \* the 3x3 labels of one face the corrector is run on
    gridInput,  \* history: the labels the first run was given
    runs        \* history: the number of runs of the corrector so far

gridVars == <<grid, gridInput, runs>>

VARIABLES
    scene,             \* input: the labels the classifier gives each shown face
    frame,             \* history: the classified cells of the last frame
    faceColors,        \* CubeRecognition: the corrected grid of the last frame
    alignmentScore,    \* CubeRecognition: in units of 1/900
    cubeDetected,      \* CubeRecognition
    capturedFaces,     \* Camera: face name -> saved face
    classified,        \* history: face name -> the classified cells it was saved from
    currentFaceIndex,  \* Camera
    captureProgress,   \* App, written by Camera
    isProcessing,      \* Camera
    timers,            \* the pending setTimeout callbacks, oldest first
    capturedCubeData,  \* App: what onCubeCaptured was given
    deliveredFrom,     \* history: the classified cells behind capturedCubeData
    activeTab,         \* App: "camera" while Camera is mounted
    saves              \* history: the number of faces saved so far

captureVars ==
    <<scene, frame, faceColors, alignmentScore, cubeDetected, capturedFaces,
      classified, currentFaceIndex, captureProgress, isProcessing, timers,
      capturedCubeData, deliveredFrom, activeTab, saves>>

VARIABLES
    sample,      \* input: the classified cells handed to a colour analysis
    analysis,    \* what the analysis returned
    analysedBy   \* "none", or the analysis that ran

analysisVars == <<sample, analysis, analysedBy>>

VARIABLES
    loopOn,           \* a requestAnimationFrame callback of the processing loop is pending
    targetFPS,        \* the loop's target rate, in half runs per second
    sinceLast,        \* currentTime - lastFrameTime, in thirds of a millisecond, capped
    processingTime,   \* performanceStats.processingTime, in milliseconds
    processingFrame,  \* CubeRecognition: the state as last committed
    pc,               \* "running" while a call of processFrame is on the stack
    inProgress,       \* history: calls of processFrame begun and not ended
    videoFrame,       \* the number of the frame the video element shows
    drawn,            \* history: the frame the last run drew on the canvas
    droppedFrames     \* history: the frames that arrived during a run or a save

loopVars ==
    <<loopOn, targetFPS, sinceLast, processingTime, processingFrame, pc, inProgress,
      videoFrame, drawn, droppedFrames>>

VARIABLES
    solverA,          \* the cube data given to the first call of a solver
    solverB,          \* the cube data given to the second call
    lblMoves,         \* what getBasicLBLMoves returned for the two, or NoMoves
    kociembaMoves     \* what getKociembaMoves returned for the two, or NoMoves

solverVars == <<solverA, solverB, lblMoves, kociembaMoves>>

VARIABLES
    pixel,            \* input: the r, g, b of a colour sample
    colorName,        \* input: the label a confidence is asked for
    cell,             \* <<>>, or what analyzeColorsOptimized computes for the sample
    labelConfidence,  \* <<>>, or getColorConfidenceRevolutionary of colorName on the sample
    overlay           \* <<>>, or the confidence drawSimpleColors computes for colorName

classifierVars == <<pixel, colorName, cell, labelConfidence, overlay>>

VARIABLES
    canvas,          \* input: the canvas the frame was drawn on
    gridBounds,      \* input: the grid analyzeColorsOptimized is given
    mirrorMode,      \* CubeRecognition
    canvasFrame,     \* history: the classified cells of the canvas
    canvasAnalysis   \* NotAnalysed, or <<what analyzeColorsOptimized returned>>

samplerVars == <<canvas, gridBounds, mirrorMode, canvasFrame, canvasAnalysis>>

VARIABLES
    localCubeData,   \* CubePage: the state handleSolve's rotations are published to
    storage,         \* localStorage: the item 'capturedCubeData'
    isSolving,       \* CubePage
    chains           \* the timer chains handleSolve started, oldest first

solveVars == <<localCubeData, storage, isSolving, chains>>

VARIABLES
    faceAnimationStatus,  \* animations.js: face letter -> an animation of the face runs
    currentAnimation,     \* animations.js, without startTime
    returned,             \* history: <<>>, or <<what the last call of animate returned>>
    sequence,             \* the call of executeMoveSequence: its arguments and currentIndex
    completions           \* history: the states onMoveComplete was called with

animationVars == <<faceAnimationStatus, currentAnimation, returned, sequence, completions>>

notSolveVars == <<cubeVars, heapVars, gridVars, captureVars, analysisVars, loopVars, solverVars, classifierVars, samplerVars, animationVars>>

notAnimationVars == <<cubeVars, heapVars, gridVars, captureVars, analysisVars, loopVars, solverVars, classifierVars, samplerVars, solveVars>>

notSamplerVars ==
    <<cubeVars, heapVars, gridVars, captureVars, analysisVars, loopVars, solverVars,
      classifierVars, solveVars, animationVars>>

notClassifierVars ==
    <<cubeVars, heapVars, gridVars, captureVars, analysisVars, loopVars, solverVars,
      samplerVars, solveVars, animationVars>>

notSolverVars == <<cubeVars, heapVars, gridVars, captureVars, analysisVars, loopVars, classifierVars, samplerVars, solveVars, animationVars>>

vars == <<cubeVars, heapVars, gridVars, captureVars, analysisVars, loopVars, solverVars, classifierVars, samplerVars, solveVars, animationVars>>

\* what an action of one component leaves alone
notCubeVars == <<heapVars, gridVars, captureVars, analysisVars, loopVars, solverVars, classifierVars, samplerVars, solveVars, animationVars>>

notHeapVars == <<cubeVars, gridVars, captureVars, analysisVars, loopVars, solverVars, classifierVars, samplerVars, solveVars, animationVars>>

notGridVars == <<cubeVars, heapVars, captureVars, analysisVars, loopVars, solverVars, classifierVars, samplerVars, solveVars, animationVars>>

notCaptureVars == <<cubeVars, heapVars, gridVars, analysisVars, loopVars, solverVars, classifierVars, samplerVars, solveVars, animationVars>>

notAnalysisVars == <<cubeVars, heapVars, gridVars, captureVars, loopVars, solverVars, classifierVars, samplerVars, solveVars, animationVars>>

\* the capture state other than isProcessing, which the loop reads
captureRest ==
    <<scene, frame, faceColors, alignmentScore, cubeDetected, capturedFaces,
      classified, currentFaceIndex, captureProgress, timers, capturedCubeData,
      deliveredFrom, activeTab, saves>>

notLoopVars == <<cubeVars, heapVars, gridVars, analysisVars, captureRest, solverVars, classifierVars, samplerVars, solveVars, animationVars>>

----------------------------------------------------------------------------
(* Bounds of the model *)

\* free single moves (executeSingleMove) applied from an initial state
MaxMoves == 2

\* calls of the move engine in the heap model
MaxCalls == 1

\* runs of the corrector on its own output
MaxRuns == 2

\* faces saved in one capture session
MaxSaves == 6

\* frames the video element shows in one session of the loop
MaxFrames == 3

----------------------------------------------------------------------------
(* Data *)

FaceNames == {"front", "back", "up", "down", "left", "right"}

CubeColors == {"white", "yellow", "green", "blue", "red", "orange"}

Labels == CubeColors \cup {"unknown"}

\* a JavaScript array literal [a, b, c]
Arr3(a, b, c) == (0 :> a) @@ (1 :> b) @@ (2 :> c)

\* [].length
ArrLen(array) == Cardinality(DOMAIN array)

EmptyArr == <<>>

UniformGrid(c) == [i \in 0..2 |-> [j \in 0..2 |-> c]]

\* the solved state handleSolve builds
solvedCubeData ==
    [front |-> [colors |-> UniformGrid("green")],
     back  |-> [colors |-> UniformGrid("blue")],
     up    |-> [colors |-> UniformGrid("white")],
     down  |-> [colors |-> UniformGrid("yellow")],
     right |-> [colors |-> UniformGrid("red")],
     left  |-> [colors |-> UniformGrid("orange")]]

----------------------------------------------------------------------------
(* animations.js: the move transform engine *)

\* move.charAt(0): "" for the empty string
charAt0(move) == IF Len(move) = 0 THEN "" ELSE move[1]

\* move.substring(1)
substring1(move) == IF Len(move) <= 1 THEN <<>> ELSE SubSeq(move, 2, Len(move))

\* the angle is kept in degrees
parseMove(move) ==
    LET face == charAt0(move)
        modifier == substring1(move)
    IN  IF modifier = <<"'">>
        THEN [face |-> face, clockwise |-> FALSE, angle |-> -90]
        ELSE IF modifier = <<"2">>
        THEN [face |-> face, clockwise |-> TRUE, angle |-> 180]
        ELSE [face |-> face, clockwise |-> TRUE, angle |-> 90]

\* A faulty rotate2DArray, which loses the last row of the grid.
rotate2DArrayShort(array, clockwise) ==
    LET n == ArrLen(array)
    IN  IF clockwise
        THEN [r \in 0..(n - 2) |-> [c \in 0..(n - 1) |-> array[n - 1 - c][r]]]
        ELSE [r \in 0..(n - 2) |-> [c \in 0..(n - 1) |-> array[c][n - 1 - r]]]

rotate2DArray(array, clockwise) ==
    LET n == ArrLen(array)
    IN  IF clockwise
        \* rotated[j][n - 1 - i] = array[i][j]
        THEN [r \in 0..(n - 1) |-> [c \in 0..(n - 1) |-> array[n - 1 - c][r]]]
        \* rotated[n - 1 - j][i] = array[i][j]
        ELSE [r \in 0..(n - 1) |-> [c \in 0..(n - 1) |-> array[c][n - 1 - r]]]

rotateFrontFace(cubeState, clockwise) ==
    LET s0 == [cubeState EXCEPT !.front.colors = rotate2DArray(cubeState.front.colors, clockwise)]
    IN  IF clockwise THEN
            LET topEdge == Arr3(s0.up.colors[2][0], s0.up.colors[2][1], s0.up.colors[2][2])
                \* Move left edge to top
                s1 == [s0 EXCEPT !.up.colors[2][0] = s0.left.colors[0][2],
                                 !.up.colors[2][1] = s0.left.colors[1][2],
                                 !.up.colors[2][2] = s0.left.colors[2][2]]
                \* Move bottom edge to left
                s2 == [s1 EXCEPT !.left.colors[0][2] = s1.down.colors[0][2],
                                 !.left.colors[1][2] = s1.down.colors[0][1],
                                 !.left.colors[2][2] = s1.down.colors[0][0]]
                \* Move right edge to bottom
                s3 == [s2 EXCEPT !.down.colors[0][0] = s2.right.colors[2][0],
                                 !.down.colors[0][1] = s2.right.colors[1][0],
                                 !.down.colors[0][2] = s2.right.colors[0][0]]
                \* Move top edge to right
                s4 == [s3 EXCEPT !.right.colors[0][0] = topEdge[0],
                                 !.right.colors[1][0] = topEdge[1],
                                 !.right.colors[2][0] = topEdge[2]]
            IN  s4
        ELSE
            LET topEdge == Arr3(s0.up.colors[2][0], s0.up.colors[2][1], s0.up.colors[2][2])
                \* Move right edge to top
                s1 == [s0 EXCEPT !.up.colors[2][0] = s0.right.colors[0][0],
                                 !.up.colors[2][1] = s0.right.colors[1][0],
                                 !.up.colors[2][2] = s0.right.colors[2][0]]
                \* Move bottom edge to right
                s2 == [s1 EXCEPT !.right.colors[0][0] = s1.down.colors[0][2],
                                 !.right.colors[1][0] = s1.down.colors[0][1],
                                 !.right.colors[2][0] = s1.down.colors[0][0]]
                \* Move left edge to bottom
                s3 == [s2 EXCEPT !.down.colors[0][0] = s2.left.colors[2][2],
                                 !.down.colors[0][1] = s2.left.colors[1][2],
                                 !.down.colors[0][2] = s2.left.colors[0][2]]
                \* Move top edge to left
                s4 == [s3 EXCEPT !.left.colors[0][2] = topEdge[0],
                                 !.left.colors[1][2] = topEdge[1],
                                 !.left.colors[2][2] = topEdge[2]]
            IN  s4

rotateBackFace(cubeState, clockwise) ==
    LET s0 == [cubeState EXCEPT !.back.colors = rotate2DArray(cubeState.back.colors, clockwise)]
    IN  IF clockwise THEN
            LET topEdge == Arr3(s0.up.colors[0][0], s0.up.colors[0][1], s0.up.colors[0][2])
                \* Move right edge to top
                s1 == [s0 EXCEPT !.up.colors[0][0] = s0.right.colors[0][2],
                                 !.up.colors[0][1] = s0.right.colors[1][2],
                                 !.up.colors[0][2] = s0.right.colors[2][2]]
                \* Move bottom edge to right
                s2 == [s1 EXCEPT !.right.colors[0][2] = s1.down.colors[2][2],
                                 !.right.colors[1][2] = s1.down.colors[2][1],
                                 !.right.colors[2][2] = s1.down.colors[2][0]]
                \* Move left edge to bottom
                s3 == [s2 EXCEPT !.down.colors[2][0] = s2.left.colors[2][0],
                                 !.down.colors[2][1] = s2.left.colors[1][0],
                                 !.down.colors[2][2] = s2.left.colors[0][0]]
                \* Move top edge to left
                s4 == [s3 EXCEPT !.left.colors[0][0] = topEdge[2],
                                 !.left.colors[1][0] = topEdge[1],
                                 !.left.colors[2][0] = topEdge[0]]
            IN  s4
        ELSE
            LET topEdge == Arr3(s0.up.colors[0][0], s0.up.colors[0][1], s0.up.colors[0][2])
                \* Move left edge to top
                s1 == [s0 EXCEPT !.up.colors[0][0] = s0.left.colors[2][0],
                                 !.up.colors[0][1] = s0.left.colors[1][0],
                                 !.up.colors[0][2] = s0.left.colors[0][0]]
                \* Move bottom edge to left
                s2 == [s1 EXCEPT !.left.colors[0][0] = s1.down.colors[2][0],
                                 !.left.colors[1][0] = s1.down.colors[2][1],
                                 !.left.colors[2][0] = s1.down.colors[2][2]]
                \* Move right edge to bottom
                s3 == [s2 EXCEPT !.down.colors[2][0] = s2.right.colors[2][2],
                                 !.down.colors[2][1] = s2.right.colors[1][2],
                                 !.down.colors[2][2] = s2.right.colors[0][2]]
                \* Move top edge to right
                s4 == [s3 EXCEPT !.right.colors[0][2] = topEdge[0],
                                 !.right.colors[1][2] = topEdge[1],
                                 !.right.colors[2][2] = topEdge[2]]
            IN  s4

rotateRightFace(cubeState, clockwise) ==
    LET s0 == [cubeState EXCEPT !.right.colors = rotate2DArray(cubeState.right.colors, clockwise)]
    IN  IF clockwise THEN
            LET topEdge == Arr3(s0.up.colors[0][2], s0.up.colors[1][2], s0.up.colors[2][2])
                \* Move front edge to top
                s1 == [s0 EXCEPT !.up.colors[0][2] = s0.front.colors[0][2],
                                 !.up.colors[1][2] = s0.front.colors[1][2],
                                 !.up.colors[2][2] = s0.front.colors[2][2]]
                \* Move bottom edge to front
                s2 == [s1 EXCEPT !.front.colors[0][2] = s1.down.colors[0][2],
                                 !.front.colors[1][2] = s1.down.colors[1][2],
                                 !.front.colors[2][2] = s1.down.colors[2][2]]
                \* Move back edge to bottom
                s3 == [s2 EXCEPT !.down.colors[0][2] = s2.back.colors[2][0],
                                 !.down.colors[1][2] = s2.back.colors[1][0],
                                 !.down.colors[2][2] = s2.back.colors[0][0]]
                \* Move top edge to back
                s4 == [s3 EXCEPT !.back.colors[0][0] = topEdge[2],
                                 !.back.colors[1][0] = topEdge[1],
                                 !.back.colors[2][0] = topEdge[0]]
            IN  s4
        ELSE
            LET topEdge == Arr3(s0.up.colors[0][2], s0.up.colors[1][2], s0.up.colors[2][2])
                \* Move back edge to top
                s1 == [s0 EXCEPT !.up.colors[0][2] = s0.back.colors[2][0],
                                 !.up.colors[1][2] = s0.back.colors[1][0],
                                 !.up.colors[2][2] = s0.back.colors[0][0]]
                \* Move bottom edge to back
                s2 == [s1 EXCEPT !.back.colors[0][0] = s1.down.colors[2][2],
                                 !.back.colors[1][0] = s1.down.colors[1][2],
                                 !.back.colors[2][0] = s1.down.colors[0][2]]
                \* Move front edge to bottom
                s3 == [s2 EXCEPT !.down.colors[0][2] = s2.front.colors[0][2],
                                 !.down.colors[1][2] = s2.front.colors[1][2],
                                 !.down.colors[2][2] = s2.front.colors[2][2]]
                \* Move top edge to front
                s4 == [s3 EXCEPT !.front.colors[0][2] = topEdge[0],
                                 !.front.colors[1][2] = topEdge[1],
                                 !.front.colors[2][2] = topEdge[2]]
            IN  s4

rotateLeftFace(cubeState, clockwise) ==
    LET s0 == [cubeState EXCEPT !.left.colors = rotate2DArray(cubeState.left.colors, clockwise)]
    IN  IF clockwise THEN
            LET topEdge == Arr3(s0.up.colors[0][0], s0.up.colors[1][0], s0.up.colors[2][0])
                \* Move back edge to top
                s1 == [s0 EXCEPT !.up.colors[0][0] = s0.back.colors[2][2],
                                 !.up.colors[1][0] = s0.back.colors[1][2],
                                 !.up.colors[2][0] = s0.back.colors[0][2]]
                \* Move bottom edge to back
                s2 == [s1 EXCEPT !.back.colors[0][2] = s1.down.colors[2][0],
                                 !.back.colors[1][2] = s1.down.colors[1][0],
                                 !.back.colors[2][2] = s1.down.colors[0][0]]
                \* Move front edge to bottom
                s3 == [s2 EXCEPT !.down.colors[0][0] = s2.front.colors[0][0],
                                 !.down.colors[1][0] = s2.front.colors[1][0],
                                 !.down.colors[2][0] = s2.front.colors[2][0]]
                \* Move top edge to front
                s4 == [s3 EXCEPT !.front.colors[0][0] = topEdge[0],
                                 !.front.colors[1][0] = topEdge[1],
                                 !.front.colors[2][0] = topEdge[2]]
            IN  s4
        ELSE
            LET topEdge == Arr3(s0.up.colors[0][0], s0.up.colors[1][0], s0.up.colors[2][0])
                \* Move front edge to top
                s1 == [s0 EXCEPT !.up.colors[0][0] = s0.front.colors[0][0],
                                 !.up.colors[1][0] = s0.front.colors[1][0],
                                 !.up.colors[2][0] = s0.front.colors[2][0]]
                \* Move bottom edge to front
                s2 == [s1 EXCEPT !.front.colors[0][0] = s1.down.colors[0][0],
                                 !.front.colors[1][0] = s1.down.colors[1][0],
                                 !.front.colors[2][0] = s1.down.colors[2][0]]
                \* Move back edge to bottom
                s3 == [s2 EXCEPT !.down.colors[0][0] = s2.back.colors[2][2],
                                 !.down.colors[1][0] = s2.back.colors[1][2],
                                 !.down.colors[2][0] = s2.back.colors[0][2]]
                \* Move top edge to back
                s4 == [s3 EXCEPT !.back.colors[0][2] = topEdge[2],
                                 !.back.colors[1][2] = topEdge[1],
                                 !.back.colors[2][2] = topEdge[0]]
            IN  s4

\* A faulty rotateUpFace, which reads the front edge after overwriting it
\* instead of the copy saved before.
rotateUpFaceNoSave(cubeState, clockwise) ==
    LET s0 == [cubeState EXCEPT !.up.colors = rotate2DArray(cubeState.up.colors, clockwise)]
    IN  IF clockwise THEN
            LET frontEdge == Arr3(s0.front.colors[0][0], s0.front.colors[0][1], s0.front.colors[0][2])
                \* Move left edge to front
                s1 == [s0 EXCEPT !.front.colors[0][0] = s0.left.colors[0][0],
                                 !.front.colors[0][1] = s0.left.colors[0][1],
                                 !.front.colors[0][2] = s0.left.colors[0][2]]
                \* Move back edge to left
                s2 == [s1 EXCEPT !.left.colors[0][0] = s1.back.colors[0][0],
                                 !.left.colors[0][1] = s1.back.colors[0][1],
                                 !.left.colors[0][2] = s1.back.colors[0][2]]
                \* Move right edge to back
                s3 == [s2 EXCEPT !.back.colors[0][0] = s2.right.colors[0][0],
                                 !.back.colors[0][1] = s2.right.colors[0][1],
                                 !.back.colors[0][2] = s2.right.colors[0][2]]
                \* Move front edge to right
                s4 == [s3 EXCEPT !.right.colors[0][0] = s3.front.colors[0][0],
                                 !.right.colors[0][1] = s3.front.colors[0][1],
                                 !.right.colors[0][2] = s3.front.colors[0][2]]
            IN  s4
        ELSE
            LET frontEdge == Arr3(s0.front.colors[0][0], s0.front.colors[0][1], s0.front.colors[0][2])
                \* Move right edge to front
                s1 == [s0 EXCEPT !.front.colors[0][0] = s0.right.colors[0][0],
                                 !.front.colors[0][1] = s0.right.colors[0][1],
                                 !.front.colors[0][2] = s0.right.colors[0][2]]
                \* Move back edge to right
                s2 == [s1 EXCEPT !.right.colors[0][0] = s1.back.colors[0][0],
                                 !.right.colors[0][1] = s1.back.colors[0][1],
                                 !.right.colors[0][2] = s1.back.colors[0][2]]
                \* Move left edge to back
                s3 == [s2 EXCEPT !.back.colors[0][0] = s2.left.colors[0][0],
                                 !.back.colors[0][1] = s2.left.colors[0][1],
                                 !.back.colors[0][2] = s2.left.colors[0][2]]
                \* Move front edge to left
                s4 == [s3 EXCEPT !.left.colors[0][0] = s3.front.colors[0][0],
                                 !.left.colors[0][1] = s3.front.colors[0][1],
                                 !.left.colors[0][2] = s3.front.colors[0][2]]
            IN  s4

rotateUpFace(cubeState, clockwise) ==
    LET s0 == [cubeState EXCEPT !.up.colors = rotate2DArray(cubeState.up.colors, clockwise)]
    IN  IF clockwise THEN
            LET frontEdge == Arr3(s0.front.colors[0][0], s0.front.colors[0][1], s0.front.colors[0][2])
                \* Move left edge to front
                s1 == [s0 EXCEPT !.front.colors[0][0] = s0.left.colors[0][0],
                                 !.front.colors[0][1] = s0.left.colors[0][1],
                                 !.front.colors[0][2] = s0.left.colors[0][2]]
                \* Move back edge to left
                s2 == [s1 EXCEPT !.left.colors[0][0] = s1.back.colors[0][0],
                                 !.left.colors[0][1] = s1.back.colors[0][1],
                                 !.left.colors[0][2] = s1.back.colors[0][2]]
                \* Move right edge to back
                s3 == [s2 EXCEPT !.back.colors[0][0] = s2.right.colors[0][0],
                                 !.back.colors[0][1] = s2.right.colors[0][1],
                                 !.back.colors[0][2] = s2.right.colors[0][2]]
                \* Move front edge to right
                s4 == [s3 EXCEPT !.right.colors[0][0] = frontEdge[0],
                                 !.right.colors[0][1] = frontEdge[1],
                                 !.right.colors[0][2] = frontEdge[2]]
            IN  s4
        ELSE
            LET frontEdge == Arr3(s0.front.colors[0][0], s0.front.colors[0][1], s0.front.colors[0][2])
                \* Move right edge to front
                s1 == [s0 EXCEPT !.front.colors[0][0] = s0.right.colors[0][0],
                                 !.front.colors[0][1] = s0.right.colors[0][1],
                                 !.front.colors[0][2] = s0.right.colors[0][2]]
                \* Move back edge to right
                s2 == [s1 EXCEPT !.right.colors[0][0] = s1.back.colors[0][0],
                                 !.right.colors[0][1] = s1.back.colors[0][1],
                                 !.right.colors[0][2] = s1.back.colors[0][2]]
                \* Move left edge to back
                s3 == [s2 EXCEPT !.back.colors[0][0] = s2.left.colors[0][0],
                                 !.back.colors[0][1] = s2.left.colors[0][1],
                                 !.back.colors[0][2] = s2.left.colors[0][2]]
                \* Move front edge to left
                s4 == [s3 EXCEPT !.left.colors[0][0] = frontEdge[0],
                                 !.left.colors[0][1] = frontEdge[1],
                                 !.left.colors[0][2] = frontEdge[2]]
            IN  s4

rotateDownFace(cubeState, clockwise) ==
    LET s0 == [cubeState EXCEPT !.down.colors = rotate2DArray(cubeState.down.colors, clockwise)]
    IN  IF clockwise THEN
            LET frontEdge == Arr3(s0.front.colors[2][0], s0.front.colors[2][1], s0.front.colors[2][2])
                \* Move right edge to front
                s1 == [s0 EXCEPT !.front.colors[2][0] = s0.right.colors[2][0],
                                 !.front.colors[2][1] = s0.right.colors[2][1],
                                 !.front.colors[2][2] = s0.right.colors[2][2]]
                \* Move back edge to right
                s2 == [s1 EXCEPT !.right.colors[2][0] = s1.back.colors[2][0],
                                 !.right.colors[2][1] = s1.back.colors[2][1],
                                 !.right.colors[2][2] = s1.back.colors[2][2]]
                \* Move left edge to back
                s3 == [s2 EXCEPT !.back.colors[2][0] = s2.left.colors[2][0],
                                 !.back.colors[2][1] = s2.left.colors[2][1],
                                 !.back.colors[2][2] = s2.left.colors[2][2]]
                \* Move front edge to left
                s4 == [s3 EXCEPT !.left.colors[2][0] = frontEdge[0],
                                 !.left.colors[2][1] = frontEdge[1],
                                 !.left.colors[2][2] = frontEdge[2]]
            IN  s4
        ELSE
            LET frontEdge == Arr3(s0.front.colors[2][0], s0.front.colors[2][1], s0.front.colors[2][2])
                \* Move left edge to front
                s1 == [s0 EXCEPT !.front.colors[2][0] = s0.left.colors[2][0],
                                 !.front.colors[2][1] = s0.left.colors[2][1],
                                 !.front.colors[2][2] = s0.left.colors[2][2]]
                \* Move back edge to left
                s2 == [s1 EXCEPT !.left.colors[2][0] = s1.back.colors[2][0],
                                 !.left.colors[2][1] = s1.back.colors[2][1],
                                 !.left.colors[2][2] = s1.back.colors[2][2]]
                \* Move right edge to back
                s3 == [s2 EXCEPT !.back.colors[2][0] = s2.right.colors[2][0],
                                 !.back.colors[2][1] = s2.right.colors[2][1],
                                 !.back.colors[2][2] = s2.right.colors[2][2]]
                \* Move front edge to right
                s4 == [s3 EXCEPT !.right.colors[2][0] = frontEdge[0],
                                 !.right.colors[2][1] = frontEdge[1],
                                 !.right.colors[2][2] = frontEdge[2]]
            IN  s4

\* the face on the other side of a face: the only one a turn does not touch
Opposite(f) ==
    CASE f = "front" -> "back"  [] f = "back" -> "front"
      [] f = "up" -> "down"     [] f = "down" -> "up"
      [] f = "left" -> "right"  [] f = "right" -> "left"

\* the face object a face letter stands for in the switch
FaceOfLetter(letter) ==
    CASE letter = "F" -> "front" [] letter = "B" -> "back"
      [] letter = "R" -> "right" [] letter = "L" -> "left"
      [] letter = "U" -> "up"    [] letter = "D" -> "down"
      [] OTHER -> "none"

\* Reading cubeState.<face>.colors[i][j] throws a TypeError when the face is
\* undefined or, for a neighbour, when its colors array has no row i; the
\* turned face itself only needs a colors array (rotate2DArray reads .length).
throwsTypeError(cubeState, face) ==
    \E f \in FaceNames \ {Opposite(face)} :
        \/ f \notin DOMAIN cubeState
        \/ f # face /\ ArrLen(cubeState[f].colors) < 3

\* a switch that takes F for B and B for F
rotateFaceSwapped(newState, face, clockwise) ==
    CASE face = "F" -> rotateBackFace(newState, clockwise)
      [] face = "B" -> rotateFrontFace(newState, clockwise)
      [] face = "R" -> rotateRightFace(newState, clockwise)
      [] face = "L" -> rotateLeftFace(newState, clockwise)
      [] face = "U" -> rotateUpFace(newState, clockwise)
      [] face = "D" -> rotateDownFace(newState, clockwise)
      [] OTHER -> newState

rotateFace(newState, face, clockwise) ==
    CASE face = "F" -> rotateFrontFace(newState, clockwise)
      [] face = "B" -> rotateBackFace(newState, clockwise)
      [] face = "R" -> rotateRightFace(newState, clockwise)
      [] face = "L" -> rotateLeftFace(newState, clockwise)
      [] face = "U" -> rotateUpFace(newState, clockwise)
      [] face = "D" -> rotateDownFace(newState, clockwise)
      [] OTHER -> newState

\* The outcome of a call: the value returned, or the exception thrown
\* (threw # "none", and then value is the untouched input).
applyMoveToCubeState(cubeState, move) ==
    LET p == parseMove(move)
        newState == cubeState   \* JSON.parse(JSON.stringify(cubeState)): equal value
    IN  IF FaceOfLetter(p.face) # "none" /\ throwsTypeError(newState, FaceOfLetter(p.face))
        THEN [threw |-> "TypeError", value |-> cubeState]
        ELSE [threw |-> "none", value |-> rotateFace(newState, p.face, p.clockwise)]

\* the state a call returns
apply(s, move) == applyMoveToCubeState(s, move).value


----------------------------------------------------------------------------
(* The move engine on the heap: objects have identity, so that sharing     *)
(* between the state passed in and the state returned can be observed.     *)
(* The heap is the sequence of the objects allocated so far, an address is *)
(* an index into it and 0 is no object. A cube state is an object whose    *)
(* fields refer to face objects, whose colors field refers to an array of  *)
(* row arrays. The states the engine is given are trees (each row array    *)
(* belongs to one face): the capture flow and JSON.parse build them so.    *)

NoRef == 0

\* F(e) with e evaluated once: TLC evaluates a LET definition at each use
With(e, F(_)) == CHOOSE r \in {F(x) : x \in {e}} : TRUE

FaceSeq == <<"front", "back", "up", "down", "left", "right">>

\* a fresh array of fresh row arrays holding the grid
allocGrid(h, rows) ==
    [heap |-> (h \o [k \in 1..ArrLen(rows) |-> [kind |-> "row", at |-> rows[k - 1]]])
                \o <<[kind |-> "rows",
                      at |-> [i \in 0..(ArrLen(rows) - 1) |-> Len(h) + 1 + i]]>>,
     ref |-> Len(h) + ArrLen(rows) + 1]

\* the face FaceSeq[k] of v in fresh objects: its grid, then the face object
allocFace(h, v, k) ==
    IF FaceSeq[k] \notin DOMAIN v THEN [heap |-> h, ref |-> NoRef]
    ELSE With(allocGrid(h, v[FaceSeq[k]].colors), LAMBDA g :
            [heap |-> Append(g.heap, [kind |-> "face", colors |-> g.ref]),
             ref |-> Len(g.heap) + 1])

\* the faces FaceSeq[k..6] of v in fresh objects; refs are the face objects so far
RECURSIVE allocFaces(_, _, _, _)
allocFaces(h, v, k, refs) ==
    IF k > Len(FaceSeq) THEN [heap |-> h, refs |-> refs]
    ELSE With(allocFace(h, v, k), LAMBDA a :
            allocFaces(a.heap, v, k + 1,
                       IF a.ref = NoRef THEN refs ELSE refs @@ (FaceSeq[k] :> a.ref)))

\* a fresh object tree holding the cube state v (an object literal, JSON.parse)
allocState(h, v) ==
    With(allocFaces(h, v, 1, <<>>), LAMBDA a :
        [heap |-> Append(a.heap, [kind |-> "state", faces |-> a.refs]),
         ref |-> Len(a.heap) + 1])

\* the value of the cube state object at address a
load(h, a) ==
    [f \in DOMAIN h[a].faces |->
        [colors |-> [i \in DOMAIN h[h[h[a].faces[f]].colors].at |->
                        h[h[h[h[a].faces[f]].colors].at[i]].at]]]

\* the objects reachable from the cube state object at address a
reach(h, a) ==
    LET faceObjs == {h[a].faces[f] : f \in DOMAIN h[a].faces}
        arrays == {h[x].colors : x \in faceObjs}
        rowArrays == UNION {{h[y].at[i] : i \in DOMAIN h[y].at} : y \in arrays}
    IN  {a} \cup faceObjs \cup arrays \cup rowArrays

\* const newState = { ...cubeState }: a copy of the top level only
spreadCopy(h, a) ==
    [heap |-> Append(h, [kind |-> "state", faces |-> h[a].faces]), ref |-> Len(h) + 1]

\* JSON.parse(JSON.stringify(cubeState)): the value, in objects of its own
jsonCopy(h, a) == With(load(h, a), LAMBDA v : allocState(h, v))

\* the addresses of the row arrays of the four faces next to face f, which
\* the assignments cubeState.<n>.colors[i][j] = ... write into
neighbourRows(h, r, f) ==
    [t \in (FaceNames \ {f, Opposite(f)}) \X (0..2) |->
        h[h[h[r].faces[t[1]]].colors].at[t[2]]]

\* rotate<Face>Face(cubeState, clockwise) on the object at address r, whose
\* value becomes after: cubeState.<face>.colors = rotated stores the fresh
\* arrays of rotate2DArray in the face object, and the assignments to the
\* cells of the neighbouring faces write into their row arrays.
storeRotated(h, r, f, after) ==
    With(allocGrid(h, after[f].colors), LAMBDA g :
      With([g.heap EXCEPT ![h[r].faces[f]].colors = g.ref], LAMBDA h1 :
        With(neighbourRows(h1, r, f), LAMBDA rows :
          [a \in DOMAIN h1 |->
              IF \E t \in DOMAIN rows : rows[t] = a
              THEN [h1[a] EXCEPT !.at =
                      after[(CHOOSE t \in DOMAIN rows : rows[t] = a)[1]]
                          .colors[(CHOOSE t \in DOMAIN rows : rows[t] = a)[2]]]
              ELSE h1[a]])))

rotateInPlace(h, r, letter, clockwise) ==
    With(load(h, r), LAMBDA before :
      With(rotateFace(before, letter, clockwise), LAMBDA after :
        storeRotated(h, r, FaceOfLetter(letter), after)))

\* the call after the copy was made
applyToCopy(newState, p) ==
    IF FaceOfLetter(p.face) = "none"
    THEN [heap |-> newState.heap, ref |-> newState.ref, threw |-> "none"]
    ELSE IF throwsTypeError(load(newState.heap, newState.ref), FaceOfLetter(p.face))
    THEN [heap |-> newState.heap, ref |-> NoRef, threw |-> "TypeError"]
    ELSE [heap |-> rotateInPlace(newState.heap, newState.ref, p.face, p.clockwise),
          ref |-> newState.ref, threw |-> "none"]

\* applyMoveToCubeState on the heap: the heap after the call, the object
\* returned (NoRef when the call threw) and the exception
applyMoveToCubeStateRef(h, a, move) ==
    With(jsonCopy(h, a), LAMBDA newState : applyToCopy(newState, parseMove(move)))

----------------------------------------------------------------------------
(* CubeRecognition.js: the grid consistency corrector *)

\* the cells of a grid; scan order is row by row
GridCells == (0..2) \X (0..2)

countOf(colors, color) == Cardinality({c \in GridCells : colors[c[1]][c[2]] = color})

\* the cells holding color that come before cell (i, j) in scan order
earlier(colors, color, i, j) ==
    Cardinality({c \in GridCells : 3 * c[1] + c[2] < 3 * i + j /\ colors[c[1]][c[2]] = color})

\* the two nested loops with the counter changed: the first n cells holding
\* from, in scan order, become to
changeFirst(colors, from, to, n) ==
    [i \in 0..2 |-> [j \in 0..2 |->
        IF colors[i][j] = from /\ earlier(colors, from, i, j) < n THEN to ELSE colors[i][j]]]

\* At most one colour is counted more than 6 times in 9 cells, so the loop
\* over the counts does at most one correction.
validateAndCorrectColors(colors) ==
    IF ArrLen(colors) = 0 THEN colors
    ELSE IF countOf(colors, "yellow") > 6 /\ countOf(colors, "orange") < 3
    THEN changeFirst(colors, "yellow", "orange", countOf(colors, "yellow") - 6)
    ELSE IF countOf(colors, "orange") > 6 /\ countOf(colors, "red") < 3
    THEN changeFirst(colors, "orange", "red", countOf(colors, "orange") - 6)
    ELSE colors

\* a step that turns white cells yellow and leaves the yellow ones
whiteToYellow(colors) ==
    IF countOf(colors, "white") > 0 /\ countOf(colors, "yellow") > 0 /\ colors[1][1] = "white"
    THEN [i \in 0..2 |-> [j \in 0..2 |->
            IF colors[i][j] = "white" THEN "yellow" ELSE colors[i][j]]]
    ELSE colors

\* the white/yellow step of validateColorConfusion
swapWhiteYellow(colors) ==
    IF /\ countOf(colors, "white") > 0
       /\ countOf(colors, "yellow") > 0
       /\ colors[1][1] = "white"
       /\ colors[1][1] # "yellow"
    THEN [i \in 0..2 |-> [j \in 0..2 |->
            IF colors[i][j] = "white" THEN "yellow"
            ELSE IF colors[i][j] = "yellow" THEN "white"
            ELSE colors[i][j]]]
    ELSE colors

isEdgeOrCorner(i, j) == i = 0 \/ i = 2 \/ j = 0 \/ j = 2

\* the orange/red step of validateColorConfusion; colorCounts are the counts
\* taken on entry, which the white/yellow step leaves as they are
orangeToRed(colors, orangeCount, redCount) ==
    IF orangeCount > 0 /\ redCount > 0 /\ orangeCount > redCount
    THEN [i \in 0..2 |-> [j \in 0..2 |->
            IF colors[i][j] = "orange" /\ isEdgeOrCorner(i, j) /\ orangeCount > 2
            THEN "red" ELSE colors[i][j]]]
    ELSE colors

validateColorConfusion(colors) ==
    IF ArrLen(colors) = 0 THEN colors
    ELSE orangeToRed(swapWhiteYellow(colors),
                     countOf(colors, "orange"), countOf(colors, "red"))

isCenterOrMiddle(i, j) == i = 1 \/ j = 1

\* blueCount and yellowCount are taken on entry, so at most one of the two
\* corrections is made
validateBlueYellowConfusion(colors) ==
    IF ArrLen(colors) = 0 THEN colors
    ELSE IF countOf(colors, "yellow") > 4 /\ countOf(colors, "blue") < 2
    THEN [i \in 0..2 |-> [j \in 0..2 |->
            IF colors[i][j] = "yellow" /\ isEdgeOrCorner(i, j) THEN "blue" ELSE colors[i][j]]]
    ELSE IF countOf(colors, "blue") > 4 /\ countOf(colors, "yellow") < 2
    THEN [i \in 0..2 |-> [j \in 0..2 |->
            IF colors[i][j] = "blue" /\ isCenterOrMiddle(i, j) THEN "yellow" ELSE colors[i][j]]]
    ELSE colors

\* the three steps as analyzeColorsOptimized chains them
correctGrid(colors) ==
    validateBlueYellowConfusion(validateColorConfusion(validateAndCorrectColors(colors)))

----------------------------------------------------------------------------
(* CubeRecognition.js and camera.js: the capture flow *)

\* a frame after classification: labels[row][col] is the label of the cell
\* ("unknown" when the sampler gave nothing), confidence[row][col] its
\* confidence in percent
cellsOf(colors) == {c \in (DOMAIN colors) \X (0..2) : c[2] \in DOMAIN colors[c[1]]}

pick(S) == CHOOSE x \in S : TRUE

RECURSIVE sumOver(_, _)
sumOver(S, f) ==
    IF S = {} THEN 0
    ELSE f[pick(S)[1]][pick(S)[2]] + sumOver(S \ {pick(S)}, f)

\* the cells analyzeColorsOptimized counts as valid detections
validDetections(fr) ==
    {c \in GridCells : fr.labels[c[1]][c[2]] # "unknown" /\ fr.confidence[c[1]][c[2]] > 30}

\* min(100, v / 9 * 100 + totalConfidence / 9 * 30), times 900, with the
\* confidences in percent
scoreOf(v, totalPercent) ==
    IF v * 10000 + 30 * totalPercent > 90000 THEN 90000 ELSE v * 10000 + 30 * totalPercent

analyzeColorsOptimized(fr) ==
    [colors |-> correctGrid(fr.labels),
     validDetections |-> Cardinality(validDetections(fr)),
     alignmentScore |-> scoreOf(Cardinality(validDetections(fr)),
                                sumOver(validDetections(fr), fr.confidence))]

validColors(colors) == {c \in cellsOf(colors) : colors[c[1]][c[2]] # "unknown"}

\* the labels other than unknown that appear in the grid
uniqueColors(colors) == {colors[c[1]][c[2]] : c \in validColors(colors)}

smaller(a, b) == IF a < b THEN a ELSE b

\* Math.round of num / den, for num >= 0
roundDiv(num, den) == (2 * num + den) \div (2 * den)

\* calculateAlignmentScore, in units of 1/900, with the confidences in
\* percent: 900 * (60 v / 9 + min(30, 30 total / 9) + min(10, 2 unique)) is
\* 6000 v + min(27000, 30 totalPercent) + 900 min(10, 2 unique)
calculateAlignmentScore(v, totalPercent, colors) ==
    IF ArrLen(colors) = 0 THEN 0
    ELSE 900 * smaller(100,
            roundDiv(6000 * v + smaller(27000, 30 * totalPercent)
                       + 900 * smaller(10, 2 * Cardinality(uniqueColors(colors))),
                     900))

\* the cells analyzeColorsUltraAccurate counts as valid detections
validDetectionsUltra(fr) ==
    {c \in GridCells : fr.labels[c[1]][c[2]] # "unknown" /\ fr.confidence[c[1]][c[2]] > 50}

analyzeColorsUltraAccurate(fr) ==
    [colors |-> correctGrid(fr.labels),
     validDetections |-> Cardinality(validDetectionsUltra(fr)),
     alignmentScore |-> calculateAlignmentScore(Cardinality(validDetectionsUltra(fr)),
                                                sumOver(validDetectionsUltra(fr), fr.confidence),
                                                correctGrid(fr.labels))]


\* A faulty isFaceValid, which takes the face without looking at the
\* alignment score.
isFaceValidUnscored(faceIndex) ==
    /\ cubeDetected
    /\ ArrLen(faceColors) # 0
    /\ IF faceIndex = 5
       THEN /\ Cardinality(validColors(faceColors)) >= 4
            /\ 10 * Cardinality(validColors(faceColors)) > 4 * Cardinality(cellsOf(faceColors))
       ELSE /\ Cardinality(validColors(faceColors)) >= 6
            /\ 10 * Cardinality(validColors(faceColors)) > 6 * Cardinality(cellsOf(faceColors))

\* alignmentScore > 30 and > 50 are > 27000 and > 45000 in units of 1/900;
\* the detection rate valid / total is compared without dividing
isFaceValid(faceIndex) ==
    /\ cubeDetected
    /\ ArrLen(faceColors) # 0
    /\ IF faceIndex = 5
       THEN /\ Cardinality(validColors(faceColors)) >= 4
            /\ alignmentScore > 27000
            /\ 10 * Cardinality(validColors(faceColors)) > 4 * Cardinality(cellsOf(faceColors))
       ELSE /\ Cardinality(validColors(faceColors)) >= 6
            /\ alignmentScore > 45000
            /\ 10 * Cardinality(validColors(faceColors)) > 6 * Cardinality(cellsOf(faceColors))

\* camera.js: the face a capture is stored under, by the index of the capture
faceNames == [i \in 0..5 |-> <<"front", "left", "back", "right", "up", "down">>[i + 1]]

\* CubeRecognition.js: the face handleSave marks in faceMapping, by faceIndex
faceMapping(faceIndex) ==
    [front |-> faceIndex = 0, back |-> faceIndex = 1, up |-> faceIndex = 2,
     down |-> faceIndex = 3, left |-> faceIndex = 4, right |-> faceIndex = 5]

\* the faceData handleSave builds; the component's totalConfidence is never
\* set on this path, so confidence is 0 / 9
faceDataOf(faceIndex) ==
    [faceIndex |-> faceIndex,
     colors |-> faceColors,
     alignmentScore |-> alignmentScore,
     confidence |-> 0,
     faceMapping |-> faceMapping(faceIndex)]

\* updatedFaces.name || { colors: [] }
faceOr(updatedFaces, name) ==
    IF name \in DOMAIN updatedFaces THEN updatedFaces[name] ELSE [colors |-> EmptyArr]

cubeDataOf(updatedFaces) == [f \in FaceNames |-> faceOr(updatedFaces, f)]

without(faces, name) == [f \in (DOMAIN faces) \ {name} |-> faces[f]]

NoFaces == [f \in {} |-> EmptyArr]

\* App.js: capturedCubeData before any capture
NoCube == "null"

----------------------------------------------------------------------------
(* Inputs of the move engine *)

\* a move string, as the sequence of its characters
Mv(face, modifier) == IF modifier = "" THEN <<face>> ELSE <<face, modifier>>

FaceLetters == {"F", "B", "U", "D", "L", "R"}

QuarterMoves == {Mv(f, m) : f \in FaceLetters, m \in {"", "'"}}

HalfMoves == {Mv(f, "2") : f \in FaceLetters}

\* the 18 moves of the notation grammar
ValidMoves == QuarterMoves \cup HalfMoves

\* strings outside the grammar: the empty string, an unknown face letter, a
\* lower-case letter, an unknown suffix, a suffix of two characters
InvalidMoves == {<<>>, <<"X">>, <<"f">>, <<"R", "3">>, <<"U", "'", "2">>}

AllMoves == ValidMoves \cup InvalidMoves

Palette == <<"white", "yellow", "green", "blue", "red", "orange">>

FaceNumber(f) ==
    CASE f = "front" -> 0 [] f = "back" -> 1 [] f = "up" -> 2
      [] f = "down" -> 3  [] f = "left" -> 4 [] f = "right" -> 5

CellNumber(f, i, j) == 9 * FaceNumber(f) + 3 * i + j

\* A complete state whose cell number n (0..53) carries the colour of the
\* base-6 digit k of n. The three states DigitState(0..2) together give every
\* cell its own signature, so a permutation of the cells that maps all three
\* to themselves is the identity.
DigitState(k) ==
    [f \in FaceNames |->
        [colors |-> [i \in 0..2 |-> [j \in 0..2 |->
            Palette[((CellNumber(f, i, j) \div (IF k = 0 THEN 1 ELSE IF k = 1 THEN 6 ELSE 36)) % 6) + 1]]]]]

\* a captured state in which three cells could not be classified
UnknownState ==
    [solvedCubeData EXCEPT !.up.colors[2][1] = "unknown",
                           !.left.colors[0][2] = "unknown",
                           !.back.colors[1][1] = "unknown"]

\* a state without the back face (a partial object read from storage)
MissingFaceState == [f \in FaceNames \ {"back"} |-> solvedCubeData[f]]

\* a state whose right face is the capture flow's default { colors: [] }
EmptyFaceState == [solvedCubeData EXCEPT !.right.colors = EmptyArr]

CompleteStates == {solvedCubeData, DigitState(0), DigitState(1), DigitState(2)}

InitStates == CompleteStates \cup {UnknownState, MissingFaceState, EmptyFaceState}

\* R U R' U'
SexyMove == <<Mv("R", ""), Mv("U", ""), Mv("R", "'"), Mv("U", "'")>>

SexySix == SexyMove \o SexyMove \o SexyMove \o SexyMove \o SexyMove \o SexyMove

\* the move lists handed to the replay
Scripts == {SexySix}

----------------------------------------------------------------------------
(* CubePage.js: the callers of the move engine *)

InitCube ==
    /\ cube \in InitStates
    /\ start = cube
    /\ done = <<>>
    /\ script \in Scripts \cup {<<>>}
    /\ prev = cube
    /\ lastError = "none"

\* executeSingleMove(move): an exception leaves localCubeData as it was
executeSingleMove(move) ==
    /\ script = <<>>
    /\ Len(done) < MaxMoves
    /\ LET r == applyMoveToCubeState(cube, move)
       IN  /\ cube' = r.value
           /\ lastError' = r.threw
    /\ prev' = cube
    /\ done' = Append(done, move)
    /\ UNCHANGED <<start, script>>
    /\ UNCHANGED notCubeVars

\* startSolvingAnimation, executeNextMove, while solving is not stopped: the
\* next move of the list is applied to currentCubeState and published with
\* setLocalCubeData; the catch block skips a move that threw.
executeNextMove ==
    /\ script # <<>>
    /\ LET r == applyMoveToCubeState(cube, Head(script))
       IN  /\ cube' = r.value
           /\ lastError' = r.threw
    /\ prev' = cube
    /\ done' = Append(done, Head(script))
    /\ script' = Tail(script)
    /\ UNCHANGED start
    /\ UNCHANGED notCubeVars

NextCube ==
    \/ \E move \in AllMoves : executeSingleMove(move)
    \/ executeNextMove

IdleCube ==
    /\ cube = solvedCubeData
    /\ start = solvedCubeData
    /\ done = <<>>
    /\ script = <<>>
    /\ prev = solvedCubeData
    /\ lastError = "none"

----------------------------------------------------------------------------
(* The callers of the move engine, on the heap *)

\* the moves tried in the heap model: the quarter turns, a half turn, and a
\* string outside the grammar
HeapMoves == QuarterMoves \cup {Mv("U", "2"), <<"X">>}

\* the states the heap model starts from
HeapStates == {DigitState(0), UnknownState, EmptyFaceState}

\* the cells a caller writes into: one per face, on rows 0, 1 and 2
WriteCells == {<<f, FaceNumber(f) % 3, 0>> : f \in FaceNames}

InitHeap ==
    /\ \E s \in HeapStates : \E a \in {allocState(<<>>, s)} :
        /\ heap = a.heap
        /\ localRef = a.ref
    /\ oldRef = NoRef
    /\ oldValue = <<>>
    /\ calls = 0
    /\ written = FALSE

IdleHeap ==
    /\ heap = <<>>
    /\ localRef = NoRef
    /\ oldRef = NoRef
    /\ oldValue = <<>>
    /\ calls = 0
    /\ written = FALSE

\* executeSingleMove(move) on the heap: setLocalCubeData(newCubeState) makes
\* localCubeData refer to the returned object; an exception leaves it alone
executeSingleMoveRef(move) ==
    /\ calls < MaxCalls
    /\ \E r \in {applyMoveToCubeStateRef(heap, localRef, move)} :
           /\ heap' = r.heap
           /\ localRef' = IF r.threw = "none" THEN r.ref ELSE localRef
           /\ oldRef' = IF r.threw = "none" THEN localRef ELSE NoRef
    /\ oldValue' = load(heap, localRef)
    /\ calls' = calls + 1
    /\ written' = FALSE
    /\ UNCHANGED notHeapVars

\* a later change to the returned state: its holder assigns to one cell
\* (newCubeState.<face>.colors[i][j] = color)
writeReturnedCell(c, color) ==
    /\ oldRef # NoRef
    /\ ~written
    /\ c[1] \in DOMAIN heap[localRef].faces
    /\ LET rows == heap[heap[heap[localRef].faces[c[1]]].colors].at
       IN  /\ c[2] \in DOMAIN rows
           /\ heap' = [heap EXCEPT ![rows[c[2]]].at[c[3]] = color]
    /\ written' = TRUE
    /\ UNCHANGED <<localRef, oldRef, oldValue, calls>>
    /\ UNCHANGED notHeapVars

NextHeap ==
    \/ \E move \in HeapMoves : executeSingleMoveRef(move)
    \/ \E c \in WriteCells : writeReturnedCell(c, "unknown")

----------------------------------------------------------------------------
(* The corrector run on a grid, and again on what it returned *)

\* the pairs of labels the grids of the corrector model are drawn from
Palettes ==
    {{"yellow", "blue"}, {"orange", "red"}, {"white", "yellow"},
     {"yellow", "orange"}, {"green", "unknown"}}

GridInputs == UNION {[0..2 -> [0..2 -> P]] : P \in Palettes}

InitGrid ==
    /\ grid \in GridInputs
    /\ gridInput = grid
    /\ runs = 0

IdleGrid ==
    /\ grid = UniformGrid("unknown")
    /\ gridInput = UniformGrid("unknown")
    /\ runs = 0

runCorrector ==
    /\ runs < MaxRuns
    /\ grid' = correctGrid(grid)
    /\ runs' = runs + 1
    /\ UNCHANGED gridInput
    /\ UNCHANGED notGridVars

NextGrid == runCorrector

----------------------------------------------------------------------------
(* The capture flow: frames, saves, timers *)

SolvedColor == [f \in FaceNames |-> solvedCubeData[f].colors[0][0]]

\* six uniformly coloured faces, each shown when its name is asked for
UniformScene == [f \in FaceNames |-> solvedCubeData[f].colors]

\* the faces of the solved cube after R U
TurnedScene == [f \in FaceNames |-> apply(apply(solvedCubeData, <<"R">>), <<"U">>)[f].colors]

Scenes == {UniformScene, TurnedScene}

\* what a frame loses: the first `lost` cells in scan order give no sample,
\* the last `faint` cells are classified with a confidence of 20 percent and
\* every other cell with the confidence `percent`
Noises ==
    {[lost |-> 0, percent |-> 90, faint |-> 0], [lost |-> 0, percent |-> 20, faint |-> 0],
     [lost |-> 5, percent |-> 90, faint |-> 0], [lost |-> 0, percent |-> 90, faint |-> 6]}

frameOf(labels, noise) ==
    [labels |-> [i \in 0..2 |-> [j \in 0..2 |->
                    IF 3 * i + j < noise.lost THEN "unknown" ELSE labels[i][j]]],
     confidence |-> [i \in 0..2 |-> [j \in 0..2 |->
                    IF 3 * i + j < noise.lost THEN 0
                    ELSE IF 3 * i + j >= 9 - noise.faint THEN 20
                    ELSE noise.percent]]]

NoFrame == frameOf(UniformGrid("unknown"), [lost |-> 9, percent |-> 0, faint |-> 0])

InitCapture ==
    /\ scene \in Scenes
    /\ frame = NoFrame
    /\ faceColors = [i \in 0..0 |-> EmptyArr]
    /\ alignmentScore = 0
    /\ cubeDetected = TRUE
    /\ capturedFaces = NoFaces
    /\ classified = NoFaces
    /\ currentFaceIndex = 0
    /\ captureProgress = 0
    /\ isProcessing = FALSE
    /\ timers = <<>>
    /\ capturedCubeData = NoCube
    /\ deliveredFrom = NoFaces
    /\ activeTab = "camera"
    /\ saves = 0

IdleCapture ==
    /\ scene = UniformScene
    /\ frame = NoFrame
    /\ faceColors = [i \in 0..0 |-> EmptyArr]
    /\ alignmentScore = 0
    /\ cubeDetected = TRUE
    /\ capturedFaces = NoFaces
    /\ classified = NoFaces
    /\ currentFaceIndex = 0
    /\ captureProgress = 0
    /\ isProcessing = FALSE
    /\ timers = <<>>
    /\ capturedCubeData = NoCube
    /\ deliveredFrom = NoFaces
    /\ activeTab = "cube"
    /\ saves = 0

\* one frame of the processing loop, which runs while isProcessing is false
processFrame ==
    /\ activeTab = "camera"
    /\ ~isProcessing
    /\ \E noise \in Noises :
        \E fr \in {frameOf(scene[faceNames[currentFaceIndex]], noise)} :
        \E colorAnalysis \in {analyzeColorsOptimized(fr)} :
            /\ frame' = fr
            /\ cubeDetected' = TRUE
            /\ alignmentScore' = colorAnalysis.alignmentScore
            /\ faceColors' = colorAnalysis.colors
    /\ UNCHANGED <<scene, capturedFaces, classified, currentFaceIndex, captureProgress,
                   isProcessing, timers, capturedCubeData, deliveredFrom, activeTab,
                   saves>>
    /\ UNCHANGED notCaptureVars

\* handleSave and the handleSaveFace it calls; a call that fails a check
\* raises an alert or returns, and changes nothing
handleSave ==
    /\ activeTab = "camera"
    /\ isFaceValid(currentFaceIndex)
    /\ Cardinality(validColors(faceColors)) >= 6
    /\ ~isProcessing
    /\ saves < MaxSaves
    /\ saves' = saves + 1
    /\ isProcessing' = TRUE
    /\ capturedFaces' =
           (faceNames[currentFaceIndex] :> faceDataOf(currentFaceIndex)) @@ capturedFaces
    /\ classified' = (faceNames[currentFaceIndex] :> frame.labels) @@ classified
    /\ captureProgress' = currentFaceIndex + 1
    /\ timers' = Append(timers,
           IF currentFaceIndex + 1 = 6
           THEN [kind |-> "captured", cubeData |-> cubeDataOf(capturedFaces'),
                 classified |-> classified']
           ELSE [kind |-> "next", newProgress |-> currentFaceIndex + 1])
    /\ UNCHANGED <<scene, frame, faceColors, alignmentScore, cubeDetected,
                   currentFaceIndex, capturedCubeData, deliveredFrom, activeTab>>
    /\ UNCHANGED notCaptureVars

\* the oldest pending callback runs; App shows the cube tab on
\* onCubeCaptured, which unmounts Camera, and a callback that finds Camera
\* unmounted sets nothing in it
timerFires ==
    /\ timers # <<>>
    /\ timers' = Tail(timers)
    /\ IF Head(timers).kind = "captured"
       THEN /\ capturedCubeData' = Head(timers).cubeData
            /\ deliveredFrom' = Head(timers).classified
            /\ activeTab' = "cube"
            /\ isProcessing' = FALSE
            /\ UNCHANGED currentFaceIndex
       ELSE /\ currentFaceIndex' =
                  IF activeTab = "camera" THEN Head(timers).newProgress ELSE currentFaceIndex
            /\ isProcessing' = FALSE
            /\ UNCHANGED <<capturedCubeData, deliveredFrom, activeTab>>
    /\ UNCHANGED <<scene, frame, faceColors, alignmentScore, cubeDetected,
                   capturedFaces, classified, captureProgress, saves>>
    /\ UNCHANGED notCaptureVars

retryCurrentFace ==
    /\ activeTab = "camera"
    /\ capturedFaces' = without(capturedFaces, faceNames[currentFaceIndex])
    /\ classified' = without(classified, faceNames[currentFaceIndex])
    /\ captureProgress' = IF currentFaceIndex > 0 THEN currentFaceIndex ELSE 0
    /\ UNCHANGED <<scene, frame, faceColors, alignmentScore, cubeDetected,
                   currentFaceIndex, isProcessing, timers, capturedCubeData,
                   deliveredFrom, activeTab, saves>>
    /\ UNCHANGED notCaptureVars

resetCapture ==
    /\ activeTab = "camera"
    /\ capturedFaces' = NoFaces
    /\ classified' = NoFaces
    /\ currentFaceIndex' = 0
    /\ captureProgress' = 0
    /\ isProcessing' = FALSE
    /\ UNCHANGED <<scene, frame, faceColors, alignmentScore, cubeDetected,
                   timers, capturedCubeData, deliveredFrom, activeTab, saves>>
    /\ UNCHANGED notCaptureVars

NextCapture ==
    \/ processFrame
    \/ handleSave
    \/ timerFires
    \/ retryCurrentFace
    \/ resetCapture

----------------------------------------------------------------------------
(* The two colour analyses, run on classified cells *)

AnalysisNoises == [lost : {0, 3, 9}, percent : {20, 40, 90}, faint : {0}]

AnalysisFrames == {frameOf(sc[f], noise) : sc \in Scenes, f \in FaceNames, noise \in AnalysisNoises}

NoAnalysis == [colors |-> EmptyArr, validDetections |-> 0, alignmentScore |-> 0]

InitAnalysis ==
    /\ sample \in AnalysisFrames
    /\ analysis = NoAnalysis
    /\ analysedBy = "none"

IdleAnalysis ==
    /\ sample = NoFrame
    /\ analysis = NoAnalysis
    /\ analysedBy = "none"

runAnalyzeColorsOptimized ==
    /\ analysedBy = "none"
    /\ analysis' = analyzeColorsOptimized(sample)
    /\ analysedBy' = "analyzeColorsOptimized"
    /\ UNCHANGED sample
    /\ UNCHANGED notAnalysisVars

runAnalyzeColorsUltraAccurate ==
    /\ analysedBy = "none"
    /\ analysis' = analyzeColorsUltraAccurate(sample)
    /\ analysedBy' = "analyzeColorsUltraAccurate"
    /\ UNCHANGED sample
    /\ UNCHANGED notAnalysisVars

NextAnalysis ==
    \/ runAnalyzeColorsOptimized
    \/ runAnalyzeColorsUltraAccurate

----------------------------------------------------------------------------
(* CubeRecognition.js: the processing loop and its throttle *)

\* targetFPS starts at 15
StartFPS == 30

\* frameInterval = 1000 / 15 ms, computed once when the loop starts
frameInterval == 200

\* an adaptation without the floor and the ceiling
adaptUnclamped(fps, time) ==
    IF time > 50 THEN fps - 2
    ELSE IF time < 30 THEN fps + 1
    ELSE fps

\* the adaptation at the head of processFrameOptimized, on half runs per
\* second: Math.max(8, targetFPS - 1) and Math.min(20, targetFPS + 0.5)
adaptTargetFPS(fps, time) ==
    IF time > 50 THEN (IF fps - 2 < 16 THEN 16 ELSE fps - 2)
    ELSE IF time < 30 /\ fps < 40 THEN (IF fps + 1 > 40 THEN 40 ELSE fps + 1)
    ELSE fps

\* as if callbacks could interleave
jsAlwaysIdle == TRUE

\* JavaScript runs one callback at a time: nothing else starts while a call
\* of processFrame is on the stack
jsIdle == pc = "idle"

\* the times between two animation frames, in thirds of a millisecond
TickGaps == {48, 150}

\* the processing times a run measures, in milliseconds
ProcessingTimes == {20, 40, 60}

InitLoop ==
    /\ loopOn = TRUE
    /\ targetFPS = StartFPS
    /\ sinceLast = frameInterval
    /\ processingTime = 0
    /\ processingFrame = FALSE
    /\ pc = "idle"
    /\ inProgress = 0
    /\ videoFrame = 0
    /\ drawn = 0
    /\ droppedFrames = {}

IdleLoop ==
    /\ loopOn = FALSE
    /\ targetFPS = StartFPS
    /\ sinceLast = frameInterval
    /\ processingTime = 0
    /\ processingFrame = FALSE
    /\ pc = "idle"
    /\ inProgress = 0
    /\ videoFrame = 0
    /\ drawn = 0
    /\ droppedFrames = {}

\* the camera delivers the next frame to the video element
frameArrives ==
    /\ videoFrame < MaxFrames
    /\ videoFrame' = videoFrame + 1
    /\ droppedFrames' =
           IF pc = "running" \/ isProcessing
           THEN droppedFrames \cup {videoFrame + 1} ELSE droppedFrames
    /\ UNCHANGED <<loopOn, targetFPS, sinceLast, processingTime, processingFrame, pc,
                   inProgress, drawn>>
    /\ UNCHANGED isProcessing
    /\ UNCHANGED notLoopVars

\* processFrameOptimized(currentTime), up to the call of processFrame: the
\* callback sees isProcessing and processingFrame as the render that started
\* the loop saw them, both false
processFrameOptimized(gap) ==
    /\ jsIdle
    /\ loopOn
    /\ targetFPS' = adaptTargetFPS(targetFPS, processingTime)
    /\ IF sinceLast + gap < frameInterval
       THEN /\ sinceLast' = sinceLast + gap
            /\ UNCHANGED <<pc, inProgress, drawn>>
       ELSE /\ sinceLast' = 0
            /\ pc' = "running"
            /\ inProgress' = inProgress + 1
            /\ drawn' = videoFrame
    /\ UNCHANGED <<loopOn, processingTime, processingFrame, videoFrame, droppedFrames>>
    /\ UNCHANGED isProcessing
    /\ UNCHANGED notLoopVars

\* processFrame returns, and the callback asks for the next animation frame;
\* a run that found the video not ready measured nothing; a new
\* performanceStats.processingTime runs the effect again, which restarts the
\* loop with targetFPS = 15 and lastFrameTime = 0
processFrameReturns(ready, time) ==
    /\ pc = "running"
    /\ pc' = "idle"
    /\ inProgress' = inProgress - 1
    /\ processingFrame' = FALSE
    /\ processingTime' = IF ready THEN time ELSE processingTime
    /\ IF ready /\ time # processingTime
       THEN /\ targetFPS' = StartFPS
            /\ sinceLast' = frameInterval
       ELSE UNCHANGED <<targetFPS, sinceLast>>
    /\ UNCHANGED <<loopOn, videoFrame, drawn, droppedFrames>>
    /\ UNCHANGED isProcessing
    /\ UNCHANGED notLoopVars

\* handleSaveFace sets isProcessing; the effect's cleanup cancels the pending
\* callback and the effect returns without asking for another
saveBegins ==
    /\ jsIdle
    /\ ~isProcessing
    /\ isProcessing' = TRUE
    /\ loopOn' = FALSE
    /\ UNCHANGED <<targetFPS, sinceLast, processingTime, processingFrame, pc, inProgress,
                   videoFrame, drawn, droppedFrames>>
    /\ UNCHANGED notLoopVars

\* the timer of handleSaveFace clears isProcessing; the effect starts the loop
saveEnds ==
    /\ jsIdle
    /\ isProcessing
    /\ isProcessing' = FALSE
    /\ loopOn' = TRUE
    /\ targetFPS' = StartFPS
    /\ sinceLast' = frameInterval
    /\ UNCHANGED <<processingTime, processingFrame, pc, inProgress, videoFrame, drawn,
                   droppedFrames>>
    /\ UNCHANGED notLoopVars

NextLoop ==
    \/ frameArrives
    \/ \E gap \in TickGaps : processFrameOptimized(gap)
    \/ \E ready \in BOOLEAN, time \in ProcessingTimes : processFrameReturns(ready, time)
    \/ saveBegins
    \/ saveEnds

----------------------------------------------------------------------------
(* lblSolver.js and kociembaSolver.js: the two solvers. A move of a solver  *)
(* is the string the source lists.                                         *)

\* "F", "R", "U", "R'", "U'", "F'"
edgeOrientation == <<"F", "R", "U", "R'", "U'", "F'">>

\* "R", "U", "R'", "U'"
cornerInsert == <<"R", "U", "R'", "U'">>

\* "U", "R", "U'", "R'", "U'", "F'", "U", "F"
middleInsert == <<"U", "R", "U'", "R'", "U'", "F'", "U", "F">>

\* "R", "U", "R'", "F'", "R", "U", "R'", "U'", "R'", "F", "R2", "U'", "R'", "U'"
cornerPermutation ==
    <<"R", "U", "R'", "F'", "R", "U", "R'", "U'", "R'", "F", "R2", "U'", "R'", "U'">>

\* "F2", "U", "R", "U'", "R'", "F2"
edgePermutation == <<"F2", "U", "R", "U'", "R'", "F2">>

\* the White Cross lines of the LBL list, the first lines of phase 1
crossMoves ==
    edgeOrientation \o <<"U">> \o <<"F", "U", "R", "U'", "R'", "F'">> \o <<"U">>
        \o edgeOrientation \o <<"U2">>

\* four times the same lines, with a "U" between two of them
fourTimes(moves) == moves \o <<"U">> \o moves \o <<"U">> \o moves \o <<"U">> \o moves

getCompleteSolvingSequence ==
    crossMoves
        \o fourTimes(cornerInsert \o cornerInsert \o cornerInsert)
        \o fourTimes(middleInsert)
        \o fourTimes(edgeOrientation)
        \o fourTimes(cornerPermutation)

\* the argument is logged and not read
getBasicLBLMoves(cubeData) == getCompleteSolvingSequence

\* the start of solvePhase1 without the rest of the list, were it to read the state
solvePhase1Reading(cubeState) ==
    IF cubeState["U"][2][1] = "white" THEN crossMoves ELSE <<>>

solvePhase1(cubeState) ==
    crossMoves \o cornerInsert \o cornerInsert \o <<"U">> \o cornerInsert \o cornerInsert

solvePhase2(cubeState) == fourTimes(cornerPermutation) \o fourTimes(edgePermutation)

\* COLORS of the face a letter names, in the solver's solved state
kociembaColor(letter) ==
    CASE letter = "U" -> "white" [] letter = "D" -> "yellow"
      [] letter = "F" -> "green" [] letter = "B" -> "blue"
      [] letter = "R" -> "red"   [] letter = "L" -> "orange"

\* the cube data null, as a record that has no face
NullCubeData == [null |-> TRUE]

\* cubeData.<face>?.colors is truthy: any array is, the empty one included
hasColors(cubeData, face) ==
    /\ cubeData # NullCubeData
    /\ face \in DOMAIN cubeData
    /\ "colors" \in DOMAIN cubeData[face]

convertCubeDataToKociembaFormat(cubeData) ==
    [letter \in FaceLetters |->
        IF hasColors(cubeData, FaceOfLetter(letter))
        THEN cubeData[FaceOfLetter(letter)].colors
        ELSE UniformGrid(kociembaColor(letter))]

RECURSIVE lengthSum(_, _)
\* the length of the arrays of S joined: [...].flat().length
lengthSum(S, arrays) ==
    IF S = {} THEN 0
    ELSE ArrLen(arrays[pick(S)]) + lengthSum(S \ {pick(S)}, arrays)

RECURSIVE totalStickers(_, _)
\* Object.values(solverState).flat().flat().length
totalStickers(S, solverState) ==
    IF S = {} THEN 0
    ELSE lengthSum(DOMAIN solverState[pick(S)], solverState[pick(S)])
            + totalStickers(S \ {pick(S)}, solverState)

analyzeCubeStateForKociemba(cubeData) ==
    [isValid   |-> totalStickers(FaceLetters, convertCubeDataToKociembaFormat(cubeData)) = 54,
     cubeState |-> convertCubeDataToKociembaFormat(cubeData)]

solveKociemba(cubeData) ==
    IF ~analyzeCubeStateForKociemba(cubeData).isValid THEN <<>>
    ELSE solvePhase1(analyzeCubeStateForKociemba(cubeData).cubeState)
            \o solvePhase2(analyzeCubeStateForKociemba(cubeData).cubeState)

getKociembaMoves(cubeData) == solveKociemba(cubeData)

\* a state whose front face lost its last row
ShortFaceState ==
    [solvedCubeData EXCEPT !.front.colors = (0 :> UniformGrid("green")[0]) @@ (1 :> UniformGrid("green")[1])]

SolverInputs == InitStates \cup {NullCubeData, ShortFaceState}

NoMoves == "none"

InitSolver ==
    /\ solverA \in SolverInputs
    /\ solverB \in SolverInputs
    /\ lblMoves = NoMoves
    /\ kociembaMoves = NoMoves

IdleSolver ==
    /\ solverA = NullCubeData
    /\ solverB = NullCubeData
    /\ lblMoves = NoMoves
    /\ kociembaMoves = NoMoves

runGetBasicLBLMoves ==
    /\ lblMoves = NoMoves
    /\ lblMoves' = <<getBasicLBLMoves(solverA), getBasicLBLMoves(solverB)>>
    /\ UNCHANGED <<solverA, solverB, kociembaMoves>>
    /\ UNCHANGED notSolverVars

runGetKociembaMoves ==
    /\ kociembaMoves = NoMoves
    /\ kociembaMoves' = <<getKociembaMoves(solverA), getKociembaMoves(solverB)>>
    /\ UNCHANGED <<solverA, solverB, lblMoves>>
    /\ UNCHANGED notSolverVars

NextSolver ==
    \/ runGetBasicLBLMoves
    \/ runGetKociembaMoves

----------------------------------------------------------------------------
(* CubeRecognition.js: the classifier of a pixel (no calibration data). A  *)
(* real number is kept as a whole number of 1/10000; the hue and the       *)
(* saturation are kept as exact fractions <<numerator, denominator>>; LAB  *)
(* values are kept in hundredths; Infinity and NaN are values of their own. *)

Unit == 10000

Infinity == 2000000000

NaN == -2000000000

larger(a, b) == IF a > b THEN a ELSE b

abs(x) == IF x < 0 THEN -x ELSE x

\* x + y
plus(x, y) ==
    IF x = NaN \/ y = NaN THEN NaN
    ELSE IF x = Infinity \/ y = Infinity THEN Infinity
    ELSE x + y

\* x > y, false when one of them is NaN
greater(x, y) == x # NaN /\ y # NaN /\ x > y

\* comparisons of a fraction <<n, d>>, d > 0, with a whole number
fracLt(q, t) == q[1] < t * q[2]

fracGt(q, t) == q[1] > t * q[2]

fracGe(q, t) == q[1] >= t * q[2]

fracLe(q, t) == q[1] <= t * q[2]

\* n / d > tn / td and n / d < tn / td, as JavaScript compares r / g with a
\* number: Infinity is greater than any number and NaN compares false
ratioGt(n, d, tn, td) == IF d = 0 THEN n > 0 ELSE n * td > tn * d

ratioLt(n, d, tn, td) == d # 0 /\ n * td < tn * d

RECURSIVE sqrtBetween(_, _, _)
\* the largest k in lo..hi with k * k <= n
sqrtBetween(n, lo, hi) ==
    IF lo >= hi THEN lo
    ELSE IF ((lo + hi + 1) \div 2) * ((lo + hi + 1) \div 2) <= n
         THEN sqrtBetween(n, (lo + hi + 1) \div 2, hi)
         ELSE sqrtBetween(n, lo, ((lo + hi + 1) \div 2) - 1)

RGB(r, g, b) == [r |-> r, g |-> g, b |-> b]

max3(r, g, b) == larger(r, larger(g, b))

min3(r, g, b) == smaller(r, smaller(g, b))

\* h is in degrees, s and v are in 0..255; max - min is the d of the source
\* times 255
rgbToHsv(r, g, b) ==
    [h |-> IF max3(r, g, b) = min3(r, g, b) THEN <<0, 1>>
           ELSE IF max3(r, g, b) = r
           THEN <<60 * (g - b) + (IF g < b THEN 360 * (max3(r, g, b) - min3(r, g, b)) ELSE 0),
                  max3(r, g, b) - min3(r, g, b)>>
           ELSE IF max3(r, g, b) = g
           THEN <<60 * (b - r) + 120 * (max3(r, g, b) - min3(r, g, b)),
                  max3(r, g, b) - min3(r, g, b)>>
           ELSE <<60 * (r - g) + 240 * (max3(r, g, b) - min3(r, g, b)),
                  max3(r, g, b) - min3(r, g, b)>>,
     s |-> IF max3(r, g, b) = 0 THEN <<0, 1>>
           ELSE <<255 * (max3(r, g, b) - min3(r, g, b)), max3(r, g, b)>>,
     v |-> max3(r, g, b)]

\* Math.min(s / 255, v / 255)
minSV(r, g, b) ==
    IF max3(r, g, b) = 0 THEN 0
    ELSE smaller((Unit * (max3(r, g, b) - min3(r, g, b))) \div max3(r, g, b),
                 (Unit * max3(r, g, b)) \div 255)

\* rgbToLab on the pixels of the model and on what correctColorForLighting
\* makes of them: [l, a, b_lab] of the source formula (gamma expansion,
\* XYZ, cube roots), in hundredths
LabTable ==
    <<255, 255, 255>> :> <<10000, 1, -1>> @@
    <<180, 180, 180>> :> <<7331, 0, -1>> @@
    <<255, 0, 0>> :> <<5323, 8011, 6722>> @@
    <<255, 165, 0>> :> <<7493, 2394, 7896>> @@
    <<255, 255, 0>> :> <<9714, -2156, 9448>> @@
    <<0, 255, 0>> :> <<8774, -8618, 8318>> @@
    <<0, 0, 255>> :> <<3230, 7920, -10786>> @@
    <<128, 64, 64>> :> <<3525, 2752, 1268>> @@
    <<225, 113, 113>> :> <<6079, 4350, 2041>> @@
    <<220, 120, 0>> :> <<6047, 3292, 6753>> @@
    <<255, 128, 128>> :> <<6821, 4820, 2269>> @@
    <<64, 64, 64>> :> <<2709, 0, 0>> @@
    <<150, 150, 150>> :> <<6208, 0, -1>> @@
    <<0, 128, 180>> :> <<5037, -1026, -3558>> @@
    <<128, 128, 128>> :> <<5359, 0, -1>> @@
    <<0, 0, 0>> :> <<0, 0, 0>> @@
    <<120, 1, 1>> :> <<2373, 4569, 3526>> @@
    <<255, 4, 4>> :> <<5334, 7986, 6625>> @@
    <<0, 110, 0>> :> <<3984, -4639, 4477>>

rgbToLab(r, g, b) ==
    [l |-> LabTable[<<r, g, b>>][1], a |-> LabTable[<<r, g, b>>][2],
     b_lab |-> LabTable[<<r, g, b>>][3]]

\* calibrationData is null: the pixel is returned as it is
applyColorCalibration(r, g, b) == RGB(r, g, b)

\* avg < 100 is r + g + b < 300 and boost is 450 / (r + g + b); for the black
\* pixel boost is Infinity and 0 * Infinity is NaN, which Math.round and
\* Math.min keep. avg > 200 is r + g + b > 600 and reduce is 540 / (r + g + b).
correctColorForLighting(r, g, b) ==
    IF r + g + b < 300
    THEN IF r + g + b = 0 THEN RGB(NaN, NaN, NaN)
         ELSE RGB(smaller(255, roundDiv(450 * r, r + g + b)),
                  smaller(255, roundDiv(450 * g, r + g + b)),
                  smaller(255, roundDiv(450 * b, r + g + b)))
    ELSE IF r + g + b > 600
    THEN RGB(larger(0, roundDiv(540 * r, r + g + b)),
             larger(0, roundDiv(540 * g, r + g + b)),
             larger(0, roundDiv(540 * b, r + g + b)))
    ELSE RGB(r, g, b)

\* the colours in the order of the keys of colorScores
ColorOrder == <<"white", "red", "orange", "yellow", "green", "blue">>

referenceColors ==
    [white  |-> RGB(255, 255, 255), red   |-> RGB(255, 0, 0), orange |-> RGB(255, 165, 0),
     yellow |-> RGB(255, 255, 0),   green |-> RGB(0, 255, 0), blue   |-> RGB(0, 0, 255)]

\* Math.sqrt of the sum of the three squared differences, in hundredths
distance(r, g, b, ref) ==
    sqrtBetween(10000 * ((r - ref.r) * (r - ref.r) + (g - ref.g) * (g - ref.g)
                            + (b - ref.b) * (b - ref.b)),
                0, 44200)

RECURSIVE bestFrom(_, _, _, _)
\* the loop over the entries of colorScores from entry k on: a colour takes
\* the lead only with a score greater than the best so far
bestFrom(colorScores, k, bestColor, bestScore) ==
    IF k > Len(ColorOrder) THEN [bestColor |-> bestColor, bestScore |-> bestScore]
    ELSE IF greater(colorScores[ColorOrder[k]], bestScore)
         THEN bestFrom(colorScores, k + 1, ColorOrder[k], colorScores[ColorOrder[k]])
         ELSE bestFrom(colorScores, k + 1, bestColor, bestScore)

\* bestScore > floor ? bestColor : 'unknown'
bestAbove(colorScores, floor) ==
    IF bestFrom(colorScores, 1, "unknown", 0).bestScore > floor
    THEN bestFrom(colorScores, 1, "unknown", 0).bestColor
    ELSE "unknown"

\* colorScores.<color> += points when the condition holds
when(condition, points) == IF condition THEN points ELSE 0

\* Technique 1 of detectColorRevolutionary: the HSV conditions and their points
revolutionaryHSV(color, r, g, b, hsv) ==
    CASE color = "white" ->
            when(/\ hsv.v > 180 /\ fracLt(hsv.s, 60)
                 /\ abs(r - g) < 40 /\ abs(g - b) < 40 /\ abs(r - b) < 40, 35000)
      [] color = "red" ->
            when(/\ fracLt(hsv.h, 8) \/ fracGt(hsv.h, 352)
                 /\ fracGt(hsv.s, 120) /\ hsv.v > 80
                 /\ 10 * r > 18 * g /\ 10 * r > 18 * b /\ g < 80, 25000)
      [] color = "orange" ->
            when(/\ fracGe(hsv.h, 15) /\ fracLe(hsv.h, 40)
                 /\ fracGt(hsv.s, 100) /\ hsv.v > 80
                 /\ r > g /\ g > b /\ r > 100 /\ r - g < 50 /\ g > 80, 25000)
      [] color = "yellow" ->
            when(/\ fracGe(hsv.h, 45) /\ fracLe(hsv.h, 75)
                 /\ fracGt(hsv.s, 80) /\ hsv.v > 150
                 /\ r > 120 /\ g > 120 /\ b < 120 /\ abs(r - g) < 50, 20000)
      [] color = "green" ->
            when(/\ fracGe(hsv.h, 80) /\ fracLe(hsv.h, 160)
                 /\ fracGt(hsv.s, 80) /\ hsv.v > 80
                 /\ 10 * g > 14 * r /\ 10 * g > 14 * b, 25000)
      [] color = "blue" ->
            when(/\ fracGe(hsv.h, 210) /\ fracLe(hsv.h, 270)
                 /\ fracGt(hsv.s, 80) /\ hsv.v > 80
                 /\ 10 * b > 14 * r /\ 10 * b > 14 * g /\ b > 100, 30000)

\* Technique 2: the RGB ratio conditions; avg > 160 is r + g + b > 480
revolutionaryRGB(color, r, g, b) ==
    CASE color = "white" ->
            when(/\ r + g + b > 480 /\ max3(r, g, b) - min3(r, g, b) < 60
                 /\ r > 140 /\ g > 140 /\ b > 140, 25000)
      [] color = "red" ->
            when(r > 130 /\ 10 * r > 18 * g /\ 10 * r > 18 * b /\ g < 80 /\ b < 80, 20000)
      [] color = "orange" ->
            when(/\ r > 120 /\ g > 80 /\ b < 80 /\ r > g /\ g > b
                 /\ r - g < 50 /\ g > 80, 20000)
      [] color = "yellow" ->
            when(r > 120 /\ g > 120 /\ b < 120 /\ abs(r - g) < 60, 15000)
      [] color = "green" ->
            when(g > 130 /\ 10 * g > 14 * r /\ 10 * g > 14 * b /\ r < 120 /\ b < 120, 20000)
      [] color = "blue" ->
            when(b > 130 /\ 10 * b > 14 * r /\ 10 * b > 14 * g /\ r < 120 /\ g < 120, 25000)

\* Technique 3: the LAB conditions. The b they read is the blue channel of
\* the pixel: the third LAB value is bound to b_lab, which is not read.
revolutionaryLAB(color, lab, b) ==
    CASE color = "white" -> when(lab.l > 7000 /\ abs(lab.a) < 2500 /\ abs(b) < 25, 25000)
      [] color = "red" -> when(lab.a > 3500 /\ lab.l > 4500 /\ b < 15, 20000)
      [] color = "orange" -> when(lab.a > 2000 /\ b > 20 /\ lab.l > 5500 /\ lab.a < 4000, 20000)
      [] color = "yellow" -> when(b > 25 /\ abs(lab.a) < 3000 /\ lab.l > 6000 /\ b < 60, 15000)
      [] color = "green" -> when(lab.a < -2000 /\ lab.l > 4500 /\ b > 5, 20000)
      [] color = "blue" -> when(b < -25 /\ lab.l > 4500 /\ lab.a < -500, 25000)

\* Technique 4: Math.max(0, 1 - distance / 250) * 1.5
revolutionaryDistance(color, r, g, b) ==
    larger(0, 15000 - (3 * distance(r, g, b, referenceColors[color])) \div 5)

revolutionaryScores(r, g, b) ==
    [color \in DOMAIN referenceColors |->
        revolutionaryHSV(color, r, g, b, rgbToHsv(r, g, b))
            + revolutionaryRGB(color, r, g, b)
            + revolutionaryLAB(color, rgbToLab(r, g, b), b)
            + revolutionaryDistance(color, r, g, b)]

\* the special handling of white against yellow; avg > 180 is r + g + b > 540
whiteOverYellow(colorScores, r, g, b) ==
    IF colorScores.white > 0 /\ colorScores.yellow > 0 /\ r + g + b > 540
    THEN [colorScores EXCEPT !.white = @ + 10000, !.yellow = @ - 5000]
    ELSE colorScores

\* A pixel of NaN channels fails every comparison and has NaN distances, so
\* that no score becomes greater than bestScore.
detectColorRevolutionary(r, g, b) ==
    IF r = NaN THEN "unknown"
    ELSE bestAbove(whiteOverYellow(revolutionaryScores(r, g, b), r, g, b), 15000)

\* Feature 1 of detectColorAdvanced: the HSV scores
advancedHSV(color, r, g, b, hsv) ==
    CASE color = "white" ->
            \* (v - 200) / 55 * (1 - s / 255) * 2, where 1 - s / 255 is min / max
            when(hsv.v > 200 /\ fracLt(hsv.s, 50),
                 (2 * Unit * (hsv.v - 200) * min3(r, g, b)) \div (55 * larger(1, hsv.v)))
      [] color = "red" ->
            when(/\ fracLt(hsv.h, 15) \/ fracGt(hsv.h, 345)
                 /\ fracGt(hsv.s, 80) /\ hsv.v > 80, 2 * minSV(r, g, b))
      [] color = "orange" ->
            when(/\ fracGe(hsv.h, 10) /\ fracLe(hsv.h, 45)
                 /\ fracGt(hsv.s, 100) /\ hsv.v > 100, 2 * minSV(r, g, b))
      [] color = "yellow" ->
            when(/\ fracGe(hsv.h, 45) /\ fracLe(hsv.h, 75)
                 /\ fracGt(hsv.s, 80) /\ hsv.v > 160
                 /\ r > 140 /\ g > 140 /\ b < 120, (5 * minSV(r, g, b)) \div 2)
      [] color = "green" ->
            when(/\ fracGe(hsv.h, 75) /\ fracLe(hsv.h, 165)
                 /\ fracGt(hsv.s, 80) /\ hsv.v > 80, 2 * minSV(r, g, b))
      [] color = "blue" ->
            when(/\ fracGe(hsv.h, 200) /\ fracLe(hsv.h, 280)
                 /\ fracGt(hsv.s, 80) /\ hsv.v > 80
                 /\ b > 120 /\ 10 * b > 14 * r /\ 10 * b > 14 * g, 3 * minSV(r, g, b))

\* (x - 120) / 135 * Math.min(x / y, x / z) * factor for x > 120, with
\* factor / 135 = 1 / per: the smaller ratio has the larger of y and z under
\* it, and is Infinity when both are 0
dominance(x, y, z, per) ==
    IF larger(y, z) = 0 THEN Infinity
    ELSE (Unit * (x - 120) * x) \div (per * larger(y, z))

\* Feature 2: the RGB scores
advancedRGB(color, r, g, b) ==
    CASE color = "white" ->
            \* (avg - 180) / 75 * (1 - diff / 255) * 1.5
            when(r + g + b > 540 /\ max3(r, g, b) - min3(r, g, b) < 50,
                 (Unit * (r + g + b - 540) * (255 - (max3(r, g, b) - min3(r, g, b)))) \div 38250)
      [] color = "red" ->
            IF r > 120 /\ 10 * r > 13 * g /\ 10 * r > 13 * b THEN dominance(r, g, b, 90) ELSE 0
      [] color = "orange" ->
            \* Math.min((r - 80) / 80, (g - 40) / 80) * (1 - b / 255) * 1.5
            when(r > 100 /\ g > 60 /\ b < 90 /\ r > g /\ g > b,
                 (Unit * smaller(r - 80, g - 40) * (255 - b)) \div 13600)
      [] color = "yellow" ->
            \* Math.min((r - 100) / 80, (g - 100) / 80) * (1 - |r - g| / 255) * 2
            when(/\ r > 120 /\ g > 120 /\ b < 100 /\ abs(r - g) < 40
                 /\ 10 * b < 7 * larger(r, g),
                 (Unit * smaller(r - 100, g - 100) * (255 - abs(r - g))) \div 10200)
      [] color = "green" ->
            IF g > 120 /\ 10 * g > 13 * r /\ 10 * g > 13 * b THEN dominance(g, r, b, 90) ELSE 0
      [] color = "blue" ->
            IF b > 120 /\ 2 * b > 3 * r /\ 2 * b > 3 * g /\ 20 * b > 13 * (r + g)
            THEN dominance(b, r, g, 54) ELSE 0

\* (b - 10) / 40 * (1 - |a| / 50) * (l / 100) * factor / 2, with b the blue
\* channel
yellowLAB(lab, b, factor) ==
    ((((100 * b - 1000) * (5000 - abs(lab.a))) \div 4000) * lab.l * factor) \div 10000

\* Feature 3 of detectColorAdvanced and of detectColorNeural: the LAB scores,
\* which differ in the yellow condition (yellowA, yellowBelow50) and in the
\* factors of yellow and blue. The b they read is the blue channel.
scoreLAB(color, lab, b, yellowA, yellowBelow50, yellowFactor, blueFactor) ==
    CASE color = "white" ->
            \* (l - 80) / 20 * (1 - (|a| + |b|) / 100) * 1.5
            when(lab.l > 8000 /\ abs(lab.a) < 2000 /\ abs(b) < 20,
                 ((lab.l - 8000) * (10000 - abs(lab.a) - 100 * abs(b)) * 3) \div 4000)
      [] color = "red" ->
            \* (a - 10) / 40 * (l / 100) * 1.5
            when(lab.a > 2000 /\ lab.l > 4000, ((lab.a - 1000) * lab.l * 3) \div 8000)
      [] color = "orange" ->
            \* Math.min((a - 5) / 30, (b - 5) / 30) * (l / 100) * 1.5
            when(lab.a > 1500 /\ b > 15 /\ lab.l > 5000,
                 (smaller(lab.a - 500, 100 * b - 500) * lab.l) \div 2000)
      [] color = "yellow" ->
            when(/\ b > 20 /\ abs(lab.a) < yellowA /\ lab.l > 6000
                 /\ yellowBelow50 => b < 50,
                 yellowLAB(lab, b, yellowFactor))
      [] color = "green" ->
            \* (-a - 5) / 35 * (l / 100) * 1.5
            when(lab.a < -1500 /\ lab.l > 4000, ((-lab.a - 500) * lab.l * 3) \div 7000)
      [] color = "blue" ->
            \* (-b - 5) / 35 * (l / 100) * factor
            when(b < -15 /\ lab.l > 4000 /\ b < -25,
                 ((-100 * b - 500) * lab.l * blueFactor) \div 7000)

\* Feature 4: the ratios r / g, r / b, g / b, b / r, b / g
advancedRatios(color, r, g, b) ==
    CASE color = "yellow" ->
            when(/\ ratioGt(r, g, 8, 10) /\ ratioLt(r, g, 12, 10)
                 /\ ratioGt(r, b, 12, 10) /\ ratioGt(g, b, 12, 10), 10000)
      [] color = "blue" -> when(ratioGt(b, r, 15, 10) /\ ratioGt(b, g, 15, 10), 15000)
      [] OTHER -> 0

advancedScores(r, g, b) ==
    [color \in DOMAIN referenceColors |->
        plus(advancedHSV(color, r, g, b, rgbToHsv(r, g, b))
                + scoreLAB(color, rgbToLab(r, g, b), b, 2500, TRUE, 4, 5)
                + advancedRatios(color, r, g, b),
             advancedRGB(color, r, g, b))]

detectColorAdvanced(r, g, b) ==
    IF r = NaN THEN "unknown" ELSE bestAbove(advancedScores(r, g, b), 15000)

\* Features 1 and 2 of detectColorNeural score yellow only
neuralYellow(r, g, b, hsv) ==
    when(/\ fracGe(hsv.h, 40) /\ fracLe(hsv.h, 80)
         /\ fracGt(hsv.s, 60) /\ hsv.v > 140, 2 * minSV(r, g, b))
    \* Math.min((r - 100) / 80, (g - 100) / 80) * 1.5
    + when(r > 120 /\ g > 120 /\ b < 110 /\ abs(r - g) < 50,
           (Unit * smaller(r - 100, g - 100) * 3) \div 160)

neuralScores(r, g, b) ==
    [color \in DOMAIN referenceColors |->
        scoreLAB(color, rgbToLab(r, g, b), b, 3000, FALSE, 3, 3)
            + (IF color = "yellow" THEN neuralYellow(r, g, b, rgbToHsv(r, g, b)) ELSE 0)]

detectColorNeural(r, g, b) ==
    IF r = NaN THEN "unknown" ELSE bestAbove(neuralScores(r, g, b), 10000)

\* here b is the third LAB value
detectColorLAB(l, a, b) ==
    IF l > 8500 /\ abs(a) < 1500 /\ abs(b) < 1500 THEN "white"
    ELSE IF a > 4000 /\ l > 4000 /\ b < 1000 THEN "red"
    ELSE IF a > 2500 /\ b > 2500 /\ l > 5500 /\ a < 3500 THEN "orange"
    ELSE IF b > 3000 /\ abs(a) < 2500 /\ l > 6000 THEN "yellow"
    ELSE IF a < -2000 /\ l > 4000 THEN "green"
    ELSE IF b < -2000 /\ l > 4000 THEN "blue"
    ELSE "unknown"

\* avg > 120 is r + g + b > 360
detectOrangeSpecial(r, g, b, hsv) ==
    IF /\ fracGe(hsv.h, 15) /\ fracLe(hsv.h, 40)
       /\ fracGt(hsv.s, 120) /\ fracLt(hsv.s, 200)
       /\ hsv.v > 100 /\ hsv.v < 200
       /\ r > 120 /\ g > 80 /\ b < 80 /\ r > g /\ g > b
       /\ r - g < 50 /\ g - b > 20
       /\ r + g + b > 360
    THEN "orange" ELSE "unknown"

\* the reference colours of detectColorByDistance, with their weights in tenths
weightedReferences ==
    <<[color |-> "white",  ref |-> RGB(255, 255, 255), weight |-> 10],
      [color |-> "white",  ref |-> RGB(240, 240, 240), weight |-> 9],
      [color |-> "white",  ref |-> RGB(220, 220, 220), weight |-> 8],
      [color |-> "red",    ref |-> RGB(255, 0, 0),     weight |-> 10],
      [color |-> "red",    ref |-> RGB(220, 20, 20),   weight |-> 9],
      [color |-> "red",    ref |-> RGB(200, 30, 30),   weight |-> 8],
      [color |-> "orange", ref |-> RGB(255, 165, 0),   weight |-> 10],
      [color |-> "orange", ref |-> RGB(255, 140, 0),   weight |-> 9],
      [color |-> "orange", ref |-> RGB(220, 120, 0),   weight |-> 8],
      [color |-> "yellow", ref |-> RGB(255, 255, 0),   weight |-> 10],
      [color |-> "yellow", ref |-> RGB(255, 240, 0),   weight |-> 9],
      [color |-> "yellow", ref |-> RGB(220, 220, 0),   weight |-> 8],
      [color |-> "green",  ref |-> RGB(0, 255, 0),     weight |-> 10],
      [color |-> "green",  ref |-> RGB(20, 220, 20),   weight |-> 9],
      [color |-> "green",  ref |-> RGB(30, 200, 30),   weight |-> 8],
      [color |-> "blue",   ref |-> RGB(0, 0, 255),     weight |-> 10],
      [color |-> "blue",   ref |-> RGB(20, 20, 220),   weight |-> 9],
      [color |-> "blue",   ref |-> RGB(30, 30, 200),   weight |-> 8]>>

\* distance / ref.weight, in hundredths
weightedDistance(r, g, b, k) ==
    (10 * distance(r, g, b, weightedReferences[k].ref)) \div weightedReferences[k].weight

RECURSIVE nearestFrom(_, _, _, _, _, _)
\* the loop over the references from reference k on
nearestFrom(r, g, b, k, bestColor, minDistance) ==
    IF k > Len(weightedReferences) THEN [bestColor |-> bestColor, minDistance |-> minDistance]
    ELSE IF weightedDistance(r, g, b, k) < minDistance
         THEN nearestFrom(r, g, b, k + 1, weightedReferences[k].color, weightedDistance(r, g, b, k))
         ELSE nearestFrom(r, g, b, k + 1, bestColor, minDistance)

\* minDistance < 180 ? bestColor : 'unknown'
detectColorByDistance(r, g, b) ==
    IF nearestFrom(r, g, b, 1, "unknown", Infinity).minDistance < 18000
    THEN nearestFrom(r, g, b, 1, "unknown", Infinity).bestColor
    ELSE "unknown"

\* avg > 200 is r + g + b > 600, avg < 50 is r + g + b < 150
detectColorRGB(r, g, b) ==
    IF r + g + b > 600 /\ max3(r, g, b) - min3(r, g, b) < 40 THEN "white"
    ELSE IF r + g + b < 150 THEN "unknown"
    ELSE IF r > 150 /\ 10 * r > 22 * g /\ 10 * r > 22 * b /\ g < 70 THEN "red"
    ELSE IF r > 120 /\ g > 100 /\ b < 80 /\ r > g /\ g > b /\ r - g < 40 /\ g > 100 THEN "orange"
    ELSE IF r > 140 /\ g > 140 /\ b < 100 /\ abs(r - g) < 50 THEN "yellow"
    ELSE IF g > 120 /\ 10 * g > 13 * r /\ 10 * g > 13 * b THEN "green"
    ELSE IF b > 120 /\ 10 * b > 13 * r /\ 10 * b > 13 * g THEN "blue"
    ELSE "unknown"

\* the HSV rules of detectColorUltraAccurate; getAdaptiveThresholds returns
\* null without calibration data, so the three multipliers are 1.0
ultraAccurateHSV(r, g, b, hsv) ==
    IF /\ hsv.v > 200 /\ fracLt(hsv.s, 50)
       /\ abs(r - g) < 30 /\ abs(g - b) < 30 /\ abs(r - b) < 30 THEN "white"
    ELSE IF /\ fracLt(hsv.h, 5) \/ fracGt(hsv.h, 355)
            /\ fracGt(hsv.s, 160) /\ hsv.v > 120
            /\ r > 2 * g /\ r > 2 * b /\ g < 80 THEN "red"
    ELSE IF /\ fracGe(hsv.h, 15) /\ fracLe(hsv.h, 40)
            /\ fracGt(hsv.s, 120) /\ hsv.v > 100
            /\ 100 * r > 105 * g /\ 10 * g > 12 * b /\ r - g < 50 /\ g > 100 THEN "orange"
    ELSE IF /\ fracGe(hsv.h, 45) /\ fracLe(hsv.h, 75)
            /\ fracGt(hsv.s, 80) /\ hsv.v > 150
            /\ r > 150 /\ g > 150 /\ b < 100 THEN "yellow"
    ELSE IF /\ fracGe(hsv.h, 75) /\ fracLe(hsv.h, 165)
            /\ fracGt(hsv.s, 80) /\ hsv.v > 80
            /\ 10 * g > 13 * r /\ 10 * g > 13 * b THEN "green"
    ELSE IF /\ fracGe(hsv.h, 200) /\ fracLe(hsv.h, 280)
            /\ fracGt(hsv.s, 80) /\ hsv.v > 80
            /\ 10 * b > 13 * r /\ 10 * b > 13 * g THEN "blue"
    ELSE "unknown"

detectColorUltraAccurate(r, g, b) ==
    IF ultraAccurateHSV(r, g, b, rgbToHsv(r, g, b)) # "unknown"
    THEN ultraAccurateHSV(r, g, b, rgbToHsv(r, g, b))
    ELSE IF detectColorLAB(rgbToLab(r, g, b).l, rgbToLab(r, g, b).a, rgbToLab(r, g, b).b_lab) # "unknown"
    THEN detectColorLAB(rgbToLab(r, g, b).l, rgbToLab(r, g, b).a, rgbToLab(r, g, b).b_lab)
    ELSE IF detectOrangeSpecial(r, g, b, rgbToHsv(r, g, b)) = "orange" THEN "orange"
    ELSE IF detectColorByDistance(r, g, b) # "unknown" THEN detectColorByDistance(r, g, b)
    ELSE detectColorRGB(r, g, b)

\* calibrated is the pixel itself; each later detector runs only when the
\* ones before it returned 'unknown'
detectColorFallbacks(r, g, b, corrected) ==
    IF detectColorRevolutionary(r, g, b) # "unknown" THEN detectColorRevolutionary(r, g, b)
    ELSE IF detectColorAdvanced(corrected.r, corrected.g, corrected.b) # "unknown"
    THEN detectColorAdvanced(corrected.r, corrected.g, corrected.b)
    ELSE IF detectColorNeural(corrected.r, corrected.g, corrected.b) # "unknown"
    THEN detectColorNeural(corrected.r, corrected.g, corrected.b)
    ELSE detectColorUltraAccurate(r, g, b)

detectColorWithCorrection(r, g, b) ==
    IF detectColorRevolutionary(correctColorForLighting(r, g, b).r,
                                correctColorForLighting(r, g, b).g,
                                correctColorForLighting(r, g, b).b) # "unknown"
    THEN detectColorRevolutionary(correctColorForLighting(r, g, b).r,
                                  correctColorForLighting(r, g, b).g,
                                  correctColorForLighting(r, g, b).b)
    ELSE detectColorFallbacks(r, g, b, correctColorForLighting(r, g, b))

\* the criteria of getColorConfidenceRevolutionary and what they add. In the
\* fourth one b is the blue channel of the pixel: b_lab is not read.
revolutionaryCriteria(color, r, g, b, hsv, lab) ==
    CASE color = "white" ->
            when(hsv.v > 180 /\ fracLt(hsv.s, 60), 3000)
            + when(abs(r - g) < 40 /\ abs(g - b) < 40 /\ abs(r - b) < 40, 3000)
            + when(r > 140 /\ g > 140 /\ b > 140, 2000)
            + when(lab.l > 7000 /\ abs(lab.a) < 2500 /\ abs(b) < 25, 2000)
            + when(r + g + b > 540, 1000)
      [] color = "red" ->
            when(/\ fracLt(hsv.h, 15) \/ fracGt(hsv.h, 345)
                 /\ fracGt(hsv.s, 80) /\ hsv.v > 80, 3000)
            + when(10 * r > 14 * g /\ 10 * r > 14 * b, 3000)
            + when(r > 130 /\ g < 120 /\ b < 120, 2000)
            + when(lab.a > 3000 /\ lab.l > 4500, 2000)
      [] color = "orange" ->
            when(/\ fracGe(hsv.h, 15) /\ fracLe(hsv.h, 45)
                 /\ fracGt(hsv.s, 80) /\ hsv.v > 80, 3000)
            + when(r > g /\ g > b /\ r > 100, 3000)
            + when(r > 120 /\ g > 70 /\ b < 90, 2000)
            + when(lab.a > 2000 /\ b > 20 /\ lab.l > 5500, 2000)
            + when(fracGe(hsv.h, 15) /\ fracLe(hsv.h, 45) /\ r - g < 80, 1000)
      [] color = "yellow" ->
            when(/\ fracGe(hsv.h, 45) /\ fracLe(hsv.h, 75)
                 /\ fracGt(hsv.s, 80) /\ hsv.v > 150, 3000)
            + when(r > 120 /\ g > 120 /\ b < 120 /\ abs(r - g) < 60, 3000)
            + when(r > 120 /\ g > 120 /\ b < 120, 2000)
            + when(b > 25 /\ abs(lab.a) < 3000 /\ lab.l > 6000, 2000)
      [] color = "green" ->
            when(/\ fracGe(hsv.h, 80) /\ fracLe(hsv.h, 160)
                 /\ fracGt(hsv.s, 80) /\ hsv.v > 80, 3000)
            + when(10 * g > 14 * r /\ 10 * g > 14 * b, 3000)
            + when(g > 130 /\ r < 120 /\ b < 120, 2000)
            + when(lab.a < -2000 /\ lab.l > 4500, 2000)
      [] color = "blue" ->
            when(/\ fracGe(hsv.h, 210) /\ fracLe(hsv.h, 270)
                 /\ fracGt(hsv.s, 80) /\ hsv.v > 80, 3000)
            + when(10 * b > 14 * r /\ 10 * b > 14 * g /\ b > 100, 3000)
            + when(b > 130 /\ r < 120 /\ g < 120, 2000)
            + when(b < -25 /\ lab.l > 4500, 2000)
      [] OTHER -> 0

\* confidence > 0.7 ? Math.min(1.0, confidence * 1.15) : confidence, and
\* then Math.min(1.0, confidence)
boostCapped(confidence) ==
    smaller(Unit, IF confidence > 7000 THEN smaller(Unit, (confidence * 115) \div 100)
                  ELSE confidence)

getColorConfidenceRevolutionary(color, r, g, b) ==
    IF color = "unknown" THEN 0
    ELSE boostCapped(revolutionaryCriteria(color, r, g, b, rgbToHsv(r, g, b), rgbToLab(r, g, b)))

\* Math.max(0, 1 - distance / 200)
getDistanceConfidence(color, r, g, b) ==
    IF color \notin DOMAIN referenceColors THEN 0
    ELSE larger(0, Unit - distance(r, g, b, referenceColors[color]) \div 2)

\* the three tiers of a technique's confidence and its fallback formula
tiers(first, second, third, fallback) ==
    IF first THEN 9500 ELSE IF second THEN 8500 ELSE IF third THEN 7500 ELSE fallback

getHSVConfidence(color, r, g, b, hsv) ==
    CASE color = "white" ->
            \* Math.max(0, (v - 150) / 100) * (1 - s / 255), 1 - s / 255 being min / max
            tiers(hsv.v > 220 /\ fracLt(hsv.s, 30), hsv.v > 200 /\ fracLt(hsv.s, 50),
                  hsv.v > 180 /\ fracLt(hsv.s, 70),
                  (Unit * larger(0, hsv.v - 150) * min3(r, g, b)) \div (100 * larger(1, hsv.v)))
      [] color = "red" ->
            tiers((fracLt(hsv.h, 8) \/ fracGt(hsv.h, 352)) /\ fracGt(hsv.s, 140) /\ hsv.v > 120,
                  (fracLt(hsv.h, 12) \/ fracGt(hsv.h, 348)) /\ fracGt(hsv.s, 120) /\ hsv.v > 100,
                  (fracLt(hsv.h, 15) \/ fracGt(hsv.h, 345)) /\ fracGt(hsv.s, 100) /\ hsv.v > 80,
                  minSV(r, g, b))
      [] color = "orange" ->
            tiers(fracGe(hsv.h, 12) /\ fracLe(hsv.h, 42) /\ fracGt(hsv.s, 140) /\ hsv.v > 140,
                  fracGe(hsv.h, 10) /\ fracLe(hsv.h, 45) /\ fracGt(hsv.s, 120) /\ hsv.v > 120,
                  fracGe(hsv.h, 8) /\ fracLe(hsv.h, 50) /\ fracGt(hsv.s, 100) /\ hsv.v > 100,
                  minSV(r, g, b))
      [] color = "yellow" ->
            tiers(fracGe(hsv.h, 45) /\ fracLe(hsv.h, 75) /\ fracGt(hsv.s, 100) /\ hsv.v > 180,
                  fracGe(hsv.h, 40) /\ fracLe(hsv.h, 80) /\ fracGt(hsv.s, 80) /\ hsv.v > 160,
                  fracGe(hsv.h, 35) /\ fracLe(hsv.h, 85) /\ fracGt(hsv.s, 60) /\ hsv.v > 140,
                  minSV(r, g, b))
      [] color = "green" ->
            tiers(fracGe(hsv.h, 75) /\ fracLe(hsv.h, 165) /\ fracGt(hsv.s, 100) /\ hsv.v > 100,
                  fracGe(hsv.h, 70) /\ fracLe(hsv.h, 170) /\ fracGt(hsv.s, 80) /\ hsv.v > 80,
                  fracGe(hsv.h, 65) /\ fracLe(hsv.h, 175) /\ fracGt(hsv.s, 60) /\ hsv.v > 60,
                  minSV(r, g, b))
      [] color = "blue" ->
            tiers(fracGe(hsv.h, 200) /\ fracLe(hsv.h, 280) /\ fracGt(hsv.s, 100) /\ hsv.v > 100,
                  fracGe(hsv.h, 190) /\ fracLe(hsv.h, 290) /\ fracGt(hsv.s, 80) /\ hsv.v > 80,
                  fracGe(hsv.h, 180) /\ fracLe(hsv.h, 300) /\ fracGt(hsv.s, 60) /\ hsv.v > 60,
                  minSV(r, g, b))
      [] OTHER -> 0

\* Math.max(0, (x - 100) / 100) * Math.min(x / y, x / z): x / 0 is Infinity,
\* 0 / 0 is NaN, Math.min keeps a NaN and 0 * Infinity is NaN; otherwise the
\* smaller ratio has the larger of y and z under it
dominantFallback(x, y, z) ==
    IF x = 0 /\ (y = 0 \/ z = 0) THEN NaN
    ELSE IF larger(y, z) = 0 THEN (IF x > 100 THEN Infinity ELSE NaN)
    ELSE (Unit * larger(0, x - 100) * x) \div (100 * larger(y, z))

\* the tiers of red, green and blue, on the channel x the colour names
dominantConfidence(x, y, z) ==
    tiers(x > 180 /\ 10 * x > 16 * y /\ 10 * x > 16 * z,
          x > 150 /\ 10 * x > 14 * y /\ 10 * x > 14 * z,
          x > 120 /\ 10 * x > 12 * y /\ 10 * x > 12 * z,
          dominantFallback(x, y, z))

\* avg > 220, 200, 180 are r + g + b > 660, 600, 540
getRGBConfidence(color, r, g, b) ==
    CASE color = "white" ->
            \* Math.max(0, (avg - 150) / 100) * (1 - diff / 255)
            tiers(r + g + b > 660 /\ max3(r, g, b) - min3(r, g, b) < 30,
                  r + g + b > 600 /\ max3(r, g, b) - min3(r, g, b) < 40,
                  r + g + b > 540 /\ max3(r, g, b) - min3(r, g, b) < 50,
                  (Unit * larger(0, r + g + b - 450) * (255 - (max3(r, g, b) - min3(r, g, b))))
                      \div 76500)
      [] color = "red" -> dominantConfidence(r, g, b)
      [] color = "orange" ->
            \* Math.max(0, Math.min((r - 80) / 80, (g - 40) / 80)) * (1 - b / 255)
            tiers(r > 140 /\ g > 100 /\ b < 70 /\ r > g /\ g > b,
                  r > 120 /\ g > 80 /\ b < 80 /\ r > g /\ g > b,
                  r > 100 /\ g > 60 /\ b < 90 /\ r > g /\ g > b,
                  (Unit * larger(0, smaller(r - 80, g - 40)) * (255 - b)) \div 20400)
      [] color = "yellow" ->
            \* Math.max(0, Math.min((r - 100) / 80, (g - 100) / 80)) * (1 - |r - g| / 255)
            tiers(r > 160 /\ g > 160 /\ b < 90 /\ abs(r - g) < 30,
                  r > 140 /\ g > 140 /\ b < 100 /\ abs(r - g) < 40,
                  r > 120 /\ g > 120 /\ b < 110 /\ abs(r - g) < 50,
                  (Unit * larger(0, smaller(r - 100, g - 100)) * (255 - abs(r - g))) \div 20400)
      [] color = "green" -> dominantConfidence(g, r, b)
      [] color = "blue" -> dominantConfidence(b, r, g)
      [] OTHER -> 0

\* here b is the third LAB value
getLABConfidence(color, l, a, b) ==
    CASE color = "white" ->
            \* Math.max(0, (l - 70) / 30) * (1 - (|a| + |b|) / 100)
            tiers(l > 9000 /\ abs(a) < 1000 /\ abs(b) < 1000,
                  l > 8500 /\ abs(a) < 1500 /\ abs(b) < 1500,
                  l > 8000 /\ abs(a) < 2000 /\ abs(b) < 2000,
                  (larger(0, l - 7000) * (10000 - abs(a) - abs(b))) \div 3000)
      [] color = "red" ->
            \* Math.max(0, (a - 10) / 40) * (l / 100)
            tiers(a > 4000 /\ l > 5000, a > 3000 /\ l > 4000, a > 2000 /\ l > 3000,
                  (larger(0, a - 1000) * l) \div 4000)
      [] color = "orange" ->
            \* Math.max(0, Math.min((a - 5) / 30, (b - 5) / 30)) * (l / 100)
            tiers(a > 2500 /\ b > 2500 /\ l > 6000, a > 2000 /\ b > 2000 /\ l > 5000,
                  a > 1500 /\ b > 1500 /\ l > 4000,
                  (larger(0, smaller(a - 500, b - 500)) * l) \div 3000)
      [] color = "yellow" ->
            \* Math.max(0, (b - 10) / 40) * (1 - |a| / 50) * (l / 100)
            tiers(b > 4000 /\ abs(a) < 2000 /\ l > 7000, b > 3000 /\ abs(a) < 2500 /\ l > 6000,
                  b > 2000 /\ abs(a) < 3000 /\ l > 5000,
                  (((larger(0, b - 1000) * (5000 - abs(a))) \div 2000) * l) \div 10000)
      [] color = "green" ->
            \* Math.max(0, (-a - 5) / 35) * (l / 100)
            tiers(a < -3000 /\ l > 5000, a < -2000 /\ l > 4000, a < -1000 /\ l > 3000,
                  (larger(0, -a - 500) * l) \div 3500)
      [] color = "blue" ->
            \* Math.max(0, (-b - 5) / 35) * (l / 100)
            tiers(b < -3000 /\ l > 5000, b < -2000 /\ l > 4000, b < -1000 /\ l > 3000,
                  (larger(0, -b - 500) * l) \div 3500)
      [] OTHER -> 0

\* confidence * weight, the weight in hundredths
weighted(value, weight) ==
    IF value = NaN \/ value = Infinity THEN value
    ELSE (value * weight) \div 100

\* hsv * 0.25 + rgb * 0.35 + lab * 0.15 + distance * 0.25
getColorConfidenceUltraAccurate(color, r, g, b) ==
    IF color = "unknown" THEN 0
    ELSE plus(plus(weighted(getHSVConfidence(color, r, g, b, rgbToHsv(r, g, b)), 25),
                   weighted(getRGBConfidence(color, r, g, b), 35)),
              plus(weighted(getLABConfidence(color, rgbToLab(r, g, b).l, rgbToLab(r, g, b).a,
                                             rgbToLab(r, g, b).b_lab), 15),
                   weighted(getDistanceConfidence(color, r, g, b), 25)))

\* the samples the classifier is run on: the six reference colours, shades
\* between them, and dark pixels
PixelSamples ==
    {RGB(255, 255, 255), RGB(255, 0, 0), RGB(255, 165, 0), RGB(255, 255, 0),
     RGB(0, 255, 0), RGB(0, 0, 255), RGB(128, 64, 64), RGB(220, 120, 0),
     RGB(255, 128, 128), RGB(64, 64, 64), RGB(0, 128, 180), RGB(128, 128, 128),
     RGB(0, 0, 0), RGB(120, 1, 1), RGB(0, 110, 0)}



InitClassifier ==
    /\ pixel \in PixelSamples
    /\ colorName \in Labels
    /\ cell = <<>>
    /\ labelConfidence = <<>>
    /\ overlay = <<>>

IdleClassifier ==
    /\ pixel = RGB(0, 0, 0)
    /\ colorName = "unknown"
    /\ cell = <<>>
    /\ labelConfidence = <<>>
    /\ overlay = <<>>

\* analyzeColorsOptimized on one sampled cell: the label and its confidence
analyzeCell ==
    /\ cell = <<>>
    /\ \E cubeColor \in {detectColorWithCorrection(pixel.r, pixel.g, pixel.b)} :
          cell' = <<[color |-> cubeColor,
                     confidence |-> getColorConfidenceRevolutionary(cubeColor, pixel.r, pixel.g, pixel.b)]>>
    /\ UNCHANGED <<pixel, colorName, labelConfidence, overlay>>
    /\ UNCHANGED notClassifierVars

\* getColorConfidenceRevolutionary called on a label and a sample
scoreLabel ==
    /\ labelConfidence = <<>>
    /\ labelConfidence' = <<getColorConfidenceRevolutionary(colorName, pixel.r, pixel.g, pixel.b)>>
    /\ UNCHANGED <<pixel, colorName, cell, overlay>>
    /\ UNCHANGED notClassifierVars

\* drawSimpleColors on one cell: the confidence of the cell's label on its sample
drawCell ==
    /\ overlay = <<>>
    /\ overlay' = <<getColorConfidenceUltraAccurate(colorName, pixel.r, pixel.g, pixel.b)>>
    /\ UNCHANGED <<pixel, colorName, cell, labelConfidence>>
    /\ UNCHANGED notClassifierVars

NextClassifier ==
    \/ analyzeCell
    \/ scoreLabel
    \/ drawCell

----------------------------------------------------------------------------
(* CubeRecognition.js: the sampler of a facelet and the analysis of a      *)
(* canvas. The canvas and the grid are measured in whole pixels, with a    *)
(* grid width that is a multiple of 24, so that faceletSize / 2 and        *)
(* faceletSize / 8 are whole and Math.floor leaves a coordinate as it is.  *)

CanvasSize == 60

\* the colours a canvas is painted with: the left half and the right half
CanvasColours == {RGB(255, 0, 0), RGB(0, 255, 0), RGB(0, 0, 0)}

\* readable is FALSE when ctx.getImageData throws
Canvases ==
    [width : {CanvasSize}, height : {CanvasSize}, left : CanvasColours,
     right : CanvasColours, readable : BOOLEAN]

\* ctx.getImageData(x, y, 1, 1).data of a readable canvas
getImageData(ctx, x, y) == IF 2 * x < ctx.width THEN ctx.left ELSE ctx.right

\* the grid processFrame lays on the canvas: 0.4 of the smaller side, centred
centredGrid(ctx) ==
    [x |-> ctx.width \div 2 - ((2 * smaller(ctx.width, ctx.height)) \div 5) \div 2,
     y |-> ctx.height \div 2 - ((2 * smaller(ctx.width, ctx.height)) \div 5) \div 2,
     width |-> (2 * smaller(ctx.width, ctx.height)) \div 5]

GridWidth == 24

\* gridBounds when it is null
NoGridBounds == [null |-> TRUE]

\* the grids the analysis is given: the centred one included, the others
\* partly or wholly off the canvas
GridBoundsSamples ==
    [x : {-24, -8, 44, 52}, y : {-8, 18, 52}, width : {GridWidth}]
        \cup {[x |-> centredGrid(ctx).x, y |-> y, width |-> centredGrid(ctx).width] :
                    ctx \in Canvases, y \in {-8, 18, 52}}
        \cup {NoGridBounds}

\* Math.max(2, faceletSize / 8)
sampleRadius(faceletSize) == larger(2, faceletSize \div 8)

\* the values dx and dy take: from -sampleRadius up to sampleRadius by 2
sampleOffsets(faceletSize) ==
    {2 * k - sampleRadius(faceletSize) : k \in 0..sampleRadius(faceletSize)}

samplePoints(centerX, centerY, faceletSize) ==
    {<<centerX + dx, centerY + dy>> : dx \in sampleOffsets(faceletSize),
                                      dy \in sampleOffsets(faceletSize)}

inCanvas(ctx, p) == p[1] >= 0 /\ p[1] < ctx.width /\ p[2] >= 0 /\ p[2] < ctx.height

\* the points whose pixel is pushed on samples
samplesAt(ctx, centerX, centerY, faceletSize) ==
    IF ctx.readable
    THEN {p \in samplePoints(centerX, centerY, faceletSize) : inCanvas(ctx, p)}
    ELSE {}

\* Object.entries(colorVotes), unknown left out
VoteOrder == <<"red", "orange", "yellow", "green", "blue", "white">>

votesFor(detected, color) == Cardinality({p \in DOMAIN detected : detected[p] = color})

maxVotes(detected) ==
    CHOOSE m \in 0..Cardinality(DOMAIN detected) :
        /\ \A k \in 1..6 : votesFor(detected, VoteOrder[k]) <= m
        /\ m = 0 \/ \E k \in 1..6 : votesFor(detected, VoteOrder[k]) = m

\* the first colour of the order with the most votes, if it has any
dominantColor(detected) ==
    IF maxVotes(detected) = 0 THEN "unknown"
    ELSE VoteOrder[CHOOSE k \in 1..6 :
            /\ votesFor(detected, VoteOrder[k]) = maxVotes(detected)
            /\ \A j \in 1..(k - 1) : votesFor(detected, VoteOrder[j]) < maxVotes(detected)]

RECURSIVE channelSum(_, _, _)
channelSum(ctx, S, channel) ==
    IF S = {} THEN 0
    ELSE getImageData(ctx, pick(S)[1], pick(S)[2])[channel]
            + channelSum(ctx, S \ {pick(S)}, channel)

\* the rounded average of the pixels at the points of S
averageOf(ctx, S) ==
    RGB(roundDiv(channelSum(ctx, S, "r"), Cardinality(S)),
        roundDiv(channelSum(ctx, S, "g"), Cardinality(S)),
        roundDiv(channelSum(ctx, S, "b"), Cardinality(S)))

\* the average of the samples of the dominant colour if it has more than a
\* quarter of the votes, of all the samples otherwise
votedAverage(ctx, S, detected) ==
    IF 4 * maxVotes(detected) > Cardinality(S)
    THEN averageOf(ctx, {p \in S : detected[p] = dominantColor(detected)})
    ELSE averageOf(ctx, S)

\* a sampler that reads the pixel under the centre wherever the centre is
sampleColorUnchecked(ctx, centerX, centerY, faceletSize) ==
    <<getImageData(ctx, centerX, centerY)>>

\* <<>> for null, <<sample>> otherwise
sampleColorOptimized(ctx, centerX, centerY, faceletSize) ==
    IF samplesAt(ctx, centerX, centerY, faceletSize) = {} THEN <<>>
    ELSE With(samplesAt(ctx, centerX, centerY, faceletSize), LAMBDA S :
            With([p \in S |-> detectColorWithCorrection(getImageData(ctx, p[1], p[2]).r,
                                                        getImageData(ctx, p[1], p[2]).g,
                                                        getImageData(ctx, p[1], p[2]).b)],
                 LAMBDA detected : <<votedAverage(ctx, S, detected)>>))

actualCol(mirror, col) == IF mirror THEN 2 - col ELSE col

\* centerX and centerY of the cell at row, col
cellCenter(grid_, mirror, row, col) ==
    <<grid_.x + actualCol(mirror, col) * (grid_.width \div 3) + (grid_.width \div 3) \div 2,
      grid_.y + row * (grid_.width \div 3) + (grid_.width \div 3) \div 2>>

\* what the loop of analyzeColorsOptimized keeps of a colorSample: the label
\* and its confidence in percent, unknown and nothing counted for null
cellOf(colorSample) ==
    IF colorSample = <<>> THEN [color |-> "unknown", percent |-> 0]
    ELSE With(detectColorWithCorrection(colorSample[1].r, colorSample[1].g, colorSample[1].b),
              LAMBDA cubeColor :
                [color |-> cubeColor,
                 percent |-> getColorConfidenceRevolutionary(cubeColor, colorSample[1].r,
                                colorSample[1].g, colorSample[1].b) \div 100])

\* the cells of a canvas after sampling and classification
sampledFrame(ctx, grid_, mirror) ==
    With([i \in 0..2 |-> [j \in 0..2 |->
            cellOf(sampleColorOptimized(ctx, cellCenter(grid_, mirror, i, j)[1],
                                        cellCenter(grid_, mirror, i, j)[2],
                                        grid_.width \div 3))]],
         LAMBDA cells :
            [labels |-> [i \in 0..2 |-> [j \in 0..2 |-> cells[i][j].color]],
             confidence |-> [i \in 0..2 |-> [j \in 0..2 |-> cells[i][j].percent]]])

NotAnalysed == <<>>

InitSampler ==
    /\ canvas \in Canvases
    /\ gridBounds \in GridBoundsSamples
    /\ mirrorMode \in BOOLEAN
    /\ canvasFrame = NoFrame
    /\ canvasAnalysis = NotAnalysed

IdleSampler ==
    /\ canvas = [width |-> CanvasSize, height |-> CanvasSize, left |-> RGB(0, 0, 0),
                 right |-> RGB(0, 0, 0), readable |-> FALSE]
    /\ gridBounds = NoGridBounds
    /\ mirrorMode = TRUE
    /\ canvasFrame = NoFrame
    /\ canvasAnalysis = NotAnalysed

\* analyzeColorsOptimized(ctx, gridBounds)
analyzeCanvas ==
    /\ canvasAnalysis = NotAnalysed
    /\ IF gridBounds = NoGridBounds
       THEN /\ canvasFrame' = canvasFrame
            /\ canvasAnalysis' = <<NoAnalysis>>
       ELSE \E fr \in {sampledFrame(canvas, gridBounds, mirrorMode)} :
               /\ canvasFrame' = fr
               /\ canvasAnalysis' = <<analyzeColorsOptimized(fr)>>
    /\ UNCHANGED <<canvas, gridBounds, mirrorMode>>
    /\ UNCHANGED notSamplerVars

NextSampler ==
    \/ analyzeCanvas

----------------------------------------------------------------------------
(* CubePage.js: handleSolve and stopSolving. A press of Start begins a     *)
(* chain of timers: one of 100 ms, then one of 500 ms for each rotation,   *)
(* then one of 1000 ms. A chain is a record of the state its closure holds *)
(* (base), the number of rotations it has made (currentIndex), the timer   *)
(* it waits for (waits) and, as history, whether stopSolving was invoked   *)
(* while it was waiting (stopped).                                         *)

\* presses of Start the model follows
MaxSolves == 2

\* the length of demoMoves
DemoLength == 8

\* the moves demoMoves is drawn from
rotationMoves ==
    {Mv(f, m) : f \in {"R", "U", "L", "D", "F", "B"}, m \in {"", "'", "2"}}

SolveStates == {DigitState(0), EmptyFaceState, NullCubeData}

InitSolve ==
    /\ localCubeData \in SolveStates
    /\ storage = localCubeData
    /\ isSolving = FALSE
    /\ chains = <<>>

IdleSolve ==
    /\ localCubeData = solvedCubeData
    /\ storage = solvedCubeData
    /\ isSolving = FALSE
    /\ chains = <<>>

\* a chain whose next timer is pending
isActive(chain) == chain.waits # "nothing"

activeChains == {k \in DOMAIN chains : isActive(chains[k])}

\* handleSolve: returns at once without cube data or while isSolving
handleSolve ==
    /\ localCubeData # NullCubeData
    /\ ~isSolving
    /\ Len(chains) < MaxSolves
    /\ isSolving' = TRUE
    /\ chains' = Append(chains, [base |-> localCubeData, currentIndex |-> 0,
                                 waits |-> "delay", stopped |-> FALSE])
    /\ UNCHANGED <<localCubeData, storage>>
    /\ UNCHANGED notSolveVars

\* executeNextRotation of chain k while currentIndex < demoMoves.length: the
\* move (random, so any of rotationMoves) is applied to the localCubeData of
\* the closure. An exception of the first call reaches the catch block of
\* the 100 ms callback; a later one ends the chain.
executeNextRotation(k, move) ==
    /\ k \in DOMAIN chains
    /\ chains[k].waits \in {"delay", "rotation"}
    /\ chains[k].currentIndex < DemoLength
    /\ \E r \in {applyMoveToCubeState(chains[k].base, move)} :
        IF r.threw = "none"
        THEN /\ localCubeData' = r.value
             /\ chains' = [chains EXCEPT ![k].currentIndex = @ + 1,
                                         ![k].waits = "rotation"]
             /\ UNCHANGED isSolving
        ELSE /\ chains' = [chains EXCEPT ![k].waits = "nothing"]
             /\ isSolving' = IF chains[k].waits = "delay" THEN FALSE ELSE isSolving
             /\ UNCHANGED localCubeData
    /\ UNCHANGED storage
    /\ UNCHANGED notSolveVars

\* executeNextRotation of chain k after the last rotation: the solved state
\* is published and stored
resetToSolved(k) ==
    /\ k \in DOMAIN chains
    /\ chains[k].waits = "rotation"
    /\ chains[k].currentIndex >= DemoLength
    /\ localCubeData' = solvedCubeData
    /\ storage' = solvedCubeData
    /\ chains' = [chains EXCEPT ![k].waits = "reset"]
    /\ UNCHANGED isSolving
    /\ UNCHANGED notSolveVars

\* the 1000 ms callback of chain k
resetSolving(k) ==
    /\ k \in DOMAIN chains
    /\ chains[k].waits = "reset"
    /\ isSolving' = FALSE
    /\ chains' = [chains EXCEPT ![k].waits = "nothing"]
    /\ UNCHANGED <<localCubeData, storage>>
    /\ UNCHANGED notSolveVars

\* stopSolving: the button shows Stop while isSolving
stopSolving ==
    /\ isSolving
    /\ isSolving' = FALSE
    /\ chains' = [k \in DOMAIN chains |->
                    [chains[k] EXCEPT !.stopped = @ \/ isActive(chains[k])]]
    /\ UNCHANGED <<localCubeData, storage>>
    /\ UNCHANGED notSolveVars

NextSolve ==
    \/ handleSolve
    \/ \E k \in 1..MaxSolves, move \in rotationMoves : executeNextRotation(k, move)
    \/ \E k \in 1..MaxSolves : resetToSolved(k)
    \/ \E k \in 1..MaxSolves : resetSolving(k)
    \/ stopSolving

----------------------------------------------------------------------------
(* animations.js: the animation system. Date.now() is not modelled: a call *)
(* of updateAnimations finds the duration elapsed (complete) or not.       *)

\* moves of a list given to executeMoveSequence
MaxSequence == 2

\* the module as loaded
NoAnimation ==
    [face |-> "null", isAnimating |-> FALSE, clockwise |-> TRUE, angle |-> 90]

AllIdle == [face \in FaceLetters |-> FALSE]

\* no call of executeMoveSequence was made
NoSequence == [cubeState |-> NullCubeData, moves |-> <<>>, currentIndex |-> 0, waits |-> "nothing"]

\* the notation given to animate: none (null, or the empty string) or a move
Notations == {<<>>} \cup ValidMoves

InitAnimation ==
    /\ faceAnimationStatus = AllIdle
    /\ currentAnimation = NoAnimation
    /\ returned = <<>>
    /\ sequence = NoSequence
    /\ completions = <<>>

IdleAnimation == InitAnimation

\* isAnimating()
isAnimating == currentAnimation.isAnimating

\* animate(face, moveNotation) in the state (status, current): what it
\* returns and the state it leaves
animateIn(status, current, face, moveNotation) ==
    LET moveData == IF moveNotation # <<>> THEN parseMove(moveNotation)
                    ELSE [face |-> face, clockwise |-> TRUE, angle |-> 90]
    IN  IF status[face]
        THEN [returned |-> FALSE, status |-> status, current |-> current]
        ELSE [returned |-> TRUE,
              status |-> [status EXCEPT ![face] = TRUE],
              current |-> [face |-> moveData.face, isAnimating |-> TRUE,
                           clockwise |-> moveData.clockwise, angle |-> moveData.angle]]

\* a call of animate from outside the module
animate(face, moveNotation) ==
    /\ \E r \in {animateIn(faceAnimationStatus, currentAnimation, face, moveNotation)} :
        /\ returned' = <<r.returned>>
        /\ faceAnimationStatus' = r.status
        /\ currentAnimation' = r.current
    /\ UNCHANGED <<sequence, completions>>
    /\ UNCHANGED notAnimationVars

\* updateAnimations, called in the render loop: returns at once when nothing
\* is animating; at progress 1 it clears the flag of currentAnimation.face
updateAnimations(complete) ==
    /\ IF isAnimating /\ complete
       THEN /\ faceAnimationStatus' =
                    [faceAnimationStatus EXCEPT ![currentAnimation.face] = FALSE]
            /\ currentAnimation' = [currentAnimation EXCEPT !.isAnimating = FALSE]
       ELSE UNCHANGED <<faceAnimationStatus, currentAnimation>>
    /\ UNCHANGED <<returned, sequence, completions>>
    /\ UNCHANGED notAnimationVars

NextAnimation ==
    \/ \E face \in FaceLetters, moveNotation \in Notations : animate(face, moveNotation)
    \/ \E complete \in BOOLEAN : updateAnimations(complete)

----------------------------------------------------------------------------
(* animations.js: executeMoveSequence *)

\* the states a sequence is run on
SequenceStates == {DigitState(0), DigitState(1), EmptyFaceState}

\* the lists of moves a sequence is given
RECURSIVE MoveLists(_)
MoveLists(n) ==
    IF n = 0 THEN {<<>>}
    ELSE MoveLists(n - 1) \cup
            {Append(moves, move) : moves \in MoveLists(n - 1), move \in ValidMoves}

\* executeNextMove of the sequence q: past the last move onMoveComplete is
\* given cubeState; else the move is applied to cubeState (the result stays
\* in the local newState), the animation is started and an interval of 50 ms
\* is set. An exception of applyMoveToCubeState ends the sequence.
executeNextMoveOf(q) ==
    IF q.currentIndex >= Len(q.moves)
    THEN /\ completions' = Append(completions, q.cubeState)
         /\ sequence' = [q EXCEPT !.waits = "nothing"]
         /\ UNCHANGED <<faceAnimationStatus, currentAnimation, returned>>
    ELSE \E move \in {q.moves[q.currentIndex + 1]} :
            IF applyMoveToCubeState(q.cubeState, move).threw # "none"
            THEN /\ sequence' = [q EXCEPT !.waits = "nothing"]
                 /\ UNCHANGED <<faceAnimationStatus, currentAnimation, returned, completions>>
            ELSE \E r \in {animateIn(faceAnimationStatus, currentAnimation,
                                     charAt0(move), move)} :
                    /\ returned' = <<r.returned>>
                    /\ faceAnimationStatus' = r.status
                    /\ currentAnimation' = r.current
                    /\ sequence' = [q EXCEPT !.waits = "interval"]
                    /\ UNCHANGED completions

\* executeMoveSequence(cubeState, moves, onMoveComplete)
executeMoveSequence(cubeState, moves) ==
    /\ sequence = NoSequence
    /\ executeNextMoveOf([cubeState |-> cubeState, moves |-> moves, currentIndex |-> 0,
                          waits |-> "nothing"])
    /\ UNCHANGED notAnimationVars

\* the callback of the interval checkAnimation
checkAnimation ==
    /\ sequence.waits = "interval"
    /\ IF ~isAnimating
       THEN executeNextMoveOf([sequence EXCEPT !.currentIndex = @ + 1])
       ELSE UNCHANGED animationVars
    /\ UNCHANGED notAnimationVars

NextSequence ==
    \/ \E cubeState \in SequenceStates, moves \in MoveLists(MaxSequence) :
            executeMoveSequence(cubeState, moves)
    \/ checkAnimation
    \/ \E complete \in BOOLEAN : updateAnimations(complete)

----------------------------------------------------------------------------
(* Specifications *)

\* the move engine and its callers, on values
Init == InitCube /\ IdleHeap /\ IdleGrid /\ IdleCapture /\ IdleAnalysis /\ IdleLoop /\ IdleSolver /\ IdleClassifier /\ IdleSampler /\ IdleSolve /\ IdleAnimation

Next == NextCube

Spec == Init /\ [][Next]_vars

\* the move engine and its callers, on the heap
InitAlias == InitHeap /\ IdleCube /\ IdleGrid /\ IdleCapture /\ IdleAnalysis /\ IdleLoop /\ IdleSolver /\ IdleClassifier /\ IdleSampler /\ IdleSolve /\ IdleAnimation

NextAlias == NextHeap

SpecAlias == InitAlias /\ [][NextAlias]_vars

\* the corrector as a function of the grid
InitCorrector == InitGrid /\ IdleCube /\ IdleHeap /\ IdleCapture /\ IdleAnalysis /\ IdleLoop /\ IdleSolver /\ IdleClassifier /\ IdleSampler /\ IdleSolve /\ IdleAnimation

NextCorrector == NextGrid

SpecCorrector == InitCorrector /\ [][NextCorrector]_vars

\* the capture of six faces
InitCapturing == InitCapture /\ IdleCube /\ IdleHeap /\ IdleGrid /\ IdleAnalysis /\ IdleLoop /\ IdleSolver /\ IdleClassifier /\ IdleSampler /\ IdleSolve /\ IdleAnimation

SpecCapture == InitCapturing /\ [][NextCapture]_vars

\* the colour analyses as functions of the classified cells
InitAnalysing == InitAnalysis /\ IdleCube /\ IdleHeap /\ IdleGrid /\ IdleCapture /\ IdleLoop /\ IdleSolver /\ IdleClassifier /\ IdleSampler /\ IdleSolve /\ IdleAnimation

SpecAnalysis == InitAnalysing /\ [][NextAnalysis]_vars

\* the processing loop while Camera is mounted
InitLooping ==
    /\ InitLoop
    /\ InitCapture
    /\ scene = UniformScene
    /\ IdleCube /\ IdleHeap /\ IdleGrid /\ IdleAnalysis /\ IdleSolver /\ IdleClassifier /\ IdleSampler /\ IdleSolve /\ IdleAnimation

SpecLoop == InitLooping /\ [][NextLoop]_vars

\* the two solvers, each called on two cube data
InitSolving ==
    /\ InitSolver
    /\ IdleCube /\ IdleHeap /\ IdleGrid /\ IdleCapture /\ IdleAnalysis /\ IdleLoop /\ IdleClassifier /\ IdleSampler /\ IdleSolve /\ IdleAnimation

SpecSolver == InitSolving /\ [][NextSolver]_vars

\* the classifier of a sample and the confidences of a label
InitClassifying ==
    /\ InitClassifier
    /\ IdleCube /\ IdleHeap /\ IdleGrid /\ IdleCapture /\ IdleAnalysis /\ IdleLoop /\ IdleSolver /\ IdleSampler /\ IdleSolve /\ IdleAnimation

SpecClassifier == InitClassifying /\ [][NextClassifier]_vars

\* the analysis of a canvas under a grid
InitSampling ==
    /\ InitSampler
    /\ IdleCube /\ IdleHeap /\ IdleGrid /\ IdleCapture /\ IdleAnalysis /\ IdleLoop /\ IdleSolver
    /\ IdleClassifier /\ IdleSolve /\ IdleAnimation

SpecSampler == InitSampling /\ [][NextSampler]_vars

\* the demonstration solve of the cube page
InitSolvePage ==
    /\ InitSolve
    /\ IdleCube /\ IdleHeap /\ IdleGrid /\ IdleCapture /\ IdleAnalysis /\ IdleLoop /\ IdleSolver
    /\ IdleClassifier /\ IdleSampler /\ IdleAnimation

SpecSolve == InitSolvePage /\ [][NextSolve]_vars

\* the animation system under calls of animate and updateAnimations
InitAnimating ==
    /\ InitAnimation
    /\ IdleCube /\ IdleHeap /\ IdleGrid /\ IdleCapture /\ IdleAnalysis /\ IdleLoop /\ IdleSolver
    /\ IdleClassifier /\ IdleSampler /\ IdleSolve

SpecAnimation == InitAnimating /\ [][NextAnimation]_vars

\* a call of executeMoveSequence under the render loop
SpecSequence == InitAnimating /\ [][NextSequence]_vars


----------------------------------------------------------------------------
(* Properties of the move engine *)

Last(seq) == seq[Len(seq)]

\* all six faces present, each a 3x3 grid
isWellShaped(s) ==
    /\ DOMAIN s = FaceNames
    /\ \A f \in FaceNames :
        /\ DOMAIN s[f].colors = 0..2
        /\ \A i \in 0..2 : DOMAIN s[f].colors[i] = 0..2

\* a complete cube state: well shaped, every cell a known colour
isCompleteState(s) ==
    /\ isWellShaped(s)
    /\ \A f \in FaceNames : \A i, j \in 0..2 : s[f].colors[i][j] \in CubeColors

Cells(s) ==
    UNION {UNION {{<<f, i, j>> : j \in DOMAIN s[f].colors[i]} : i \in DOMAIN s[f].colors} :
           f \in DOMAIN s}

stickerCount(s) == Cardinality(Cells(s))

UnknownCells(s) == {c \in Cells(s) : s[c[1]].colors[c[2]][c[3]] = "unknown"}

\* X and X' are inverse to each other, X2 is its own inverse
inverse(move) ==
    IF Len(move) = 1 THEN <<move[1], "'">>
    ELSE IF move[2] = "'" THEN <<move[1]>>
    ELSE move

\* the cells of the four neighbouring faces a turn of the face cycles
edgeCycleCells(letter) ==
    {c \in Cells(solvedCubeData) :
        /\ c[1] # FaceOfLetter(letter)
        /\ \E k \in 0..2 :
             apply(DigitState(k), <<letter>>)[c[1]].colors[c[2]][c[3]]
                # DigitState(k)[c[1]].colors[c[2]][c[3]]}

\* C1: for each of the 12 quarter-turn moves m and every complete state s,
\* applying m four times in succession gives back s.
C1_FourQuarterTurns ==
    isCompleteState(cube) =>
        \A m \in QuarterMoves : apply(apply(apply(apply(cube, m), m), m), m) = cube

\* C2: for each of the 18 moves m and every complete state s, applying m and
\* then the inverse of m gives back s.
C2_MoveThenInverse ==
    isCompleteState(cube) =>
        \A m \in ValidMoves : apply(apply(cube, m), inverse(m)) = cube

\* C3: for each of the 6 half-turn moves m and every complete state s,
\* applying m twice gives back s.
C3_HalfTurnTwice ==
    isCompleteState(cube) =>
        \A m \in HalfMoves : apply(apply(cube, m), m) = cube

\* C18: for every face X and every complete state s, applying the half-turn
\* move X2 gives the same state as applying the clockwise quarter turn X twice.
C18_HalfTurnIsTwoQuarters ==
    isCompleteState(cube) =>
        \A X \in FaceLetters :
            apply(cube, Mv(X, "2")) = apply(apply(cube, Mv(X, "")), Mv(X, ""))

\* C4: from the solved state, the sequence R U R' U' applied six times in
\* succession (24 calls) yields exactly the solved state.
C4_SexySixSolved ==
    (start = solvedCubeData /\ done = SexySix) => cube = solvedCubeData

C4_Witness ==
    /\ start = solvedCubeData
    /\ done = SexySix
    /\ script = <<>>
    /\ lastError = "none"

\* C5: after any finite sequence of moves on a complete state, the state has
\* exactly 6 faces of exactly 3x3 cells, 54 stickers in total.
C5_StickerCount ==
    isCompleteState(start) => (isWellShaped(cube) /\ stickerCount(cube) = 54)

C5_Witness ==
    /\ isCompleteState(start)
    /\ Len(done) = MaxMoves
    /\ Last(done) \in ValidMoves
    /\ cube # prev
    /\ stickerCount(cube) = 54

\* the number of cells of the state that carry the colour
colourCount(s, color) == Cardinality({c \in Cells(s) : s[c[1]].colors[c[2]][c[3]] = color})

\* the move takes the 54 cells of the three digit states, no two of which
\* carry the same three colours, to 54 cells no two of which do: it puts
\* every sticker on a cell of its own
rearranges(move) ==
    \E r \in {[k \in 0..2 |-> apply(DigitState(k), move)]} :
        Cardinality({<<r[0][c[1]].colors[c[2]][c[3]], r[1][c[1]].colors[c[2]][c[3]],
                       r[2][c[1]].colors[c[2]][c[3]]>> : c \in Cells(solvedCubeData)}) = 54

\* C22: after any sequence of moves on a complete state, every colour is on
\* as many of the 54 cells as before the sequence, and every move of the
\* grammar puts every sticker on a cell of its own.
C22_ColourCountsKept ==
    /\ isCompleteState(start) =>
            \A color \in CubeColors : colourCount(cube, color) = colourCount(start, color)
    /\ (done # <<>> /\ Last(done) \in ValidMoves) => rearranges(Last(done))

\* two moves of the grammar have been applied to a complete state, the last
\* of them changing it
C22_Witness ==
    /\ isCompleteState(start)
    /\ start # solvedCubeData
    /\ Len(done) = MaxMoves
    /\ \A k \in 1..Len(done) : done[k] \in ValidMoves
    /\ cube # prev
    /\ cube # start

rowOf(f, i) == {<<f, i, j>> : j \in 0..2}

colOf(f, j) == {<<f, i, j>> : i \in 0..2}

\* the twelve cells of the four neighbours that lie along the face: up is
\* above front and down below it, left and right beside it, and back is
\* reached round the right face, its column 0 next to right
borderCells(letter) ==
    CASE letter = "F" -> rowOf("up", 2) \cup colOf("right", 0) \cup rowOf("down", 0) \cup colOf("left", 2)
      [] letter = "B" -> rowOf("up", 0) \cup colOf("right", 2) \cup rowOf("down", 2) \cup colOf("left", 0)
      [] letter = "R" -> colOf("up", 2) \cup colOf("front", 2) \cup colOf("down", 2) \cup colOf("back", 0)
      [] letter = "L" -> colOf("up", 0) \cup colOf("front", 0) \cup colOf("down", 0) \cup colOf("back", 2)
      [] letter = "U" -> rowOf("front", 0) \cup rowOf("right", 0) \cup rowOf("back", 0) \cup rowOf("left", 0)
      [] letter = "D" -> rowOf("front", 2) \cup rowOf("right", 2) \cup rowOf("back", 2) \cup rowOf("left", 2)

\* the cells a turn of the face may change
turnCells(letter) ==
    {c \in Cells(solvedCubeData) : c[1] = FaceOfLetter(letter)} \cup borderCells(letter)

\* C23: a turn of a face changes only the nine cells of the face and the
\* twelve cells of its four neighbours that lie along it; every other cell,
\* those of the opposite face among them, holds after the move what it held
\* before.
C23_TurnFrame ==
    (done # <<>> /\ Last(done) \in ValidMoves /\ isWellShaped(prev)) =>
        /\ isWellShaped(cube)
        /\ \A c \in Cells(prev) \ turnCells(Last(done)[1]) :
                cube[c[1]].colors[c[2]][c[3]] = prev[c[1]].colors[c[2]][c[3]]

\* a move of the grammar has changed cells of a state whose 54 cells differ
\* from their neighbours, on the turned face and on a neighbour
C23_Witness ==
    /\ done # <<>>
    /\ Last(done) \in ValidMoves
    /\ prev = DigitState(0)
    /\ \E c \in borderCells(Last(done)[1]) :
            cube[c[1]].colors[c[2]][c[3]] # prev[c[1]].colors[c[2]][c[3]]
    /\ \E c \in turnCells(Last(done)[1]) \ borderCells(Last(done)[1]) :
            cube[c[1]].colors[c[2]][c[3]] # prev[c[1]].colors[c[2]][c[3]]

\* C7: a move string outside the grammar signals InvalidMoveError instead of
\* returning a cube state.
C7_InvalidMoveSignalled ==
    (done # <<>> /\ Last(done) \notin ValidMoves) => lastError = "InvalidMoveError"

\* C8: a state that misses a face, or holds unknown in a cell of the move's
\* edge cycle, signals IncompleteStateError; no call returns a state in which
\* an unknown cell has moved to another position.
C8_IncompleteStateSignalled ==
    (done # <<>> /\ Last(done) \in ValidMoves) =>
        /\ (\/ DOMAIN prev # FaceNames
            \/ UnknownCells(prev) \cap edgeCycleCells(Last(done)[1]) # {})
                => lastError = "IncompleteStateError"
        /\ lastError = "none" => UnknownCells(cube) = UnknownCells(prev)

\* C6: applyMoveToCubeState never changes the state object passed to it: after
\* the call, and after later writes into the returned state, the object passed
\* in has the value it had, and the returned state shares no object with it.
C6_InputUntouched ==
    oldRef # NoRef =>
        /\ load(heap, oldRef) = oldValue
        /\ reach(heap, oldRef) \cap reach(heap, localRef) = {}

C6_Witness ==
    /\ oldRef # NoRef
    /\ written
    /\ load(heap, localRef) # oldValue
    /\ UnknownCells(load(heap, localRef)) # UnknownCells(oldValue)

\* C9: the corrector chain is idempotent: run on its own output, it returns
\* that output unchanged.
C9_CorrectorIdempotent ==
    runs >= 1 => correctGrid(grid) = grid

\* the cells validateColorConfusion returns with another label than it was given
reassigned(colors) ==
    {c \in GridCells : validateColorConfusion(colors)[c[1]][c[2]] # colors[c[1]][c[2]]}

\* C19: when orange and red both appear on the face and orange is counted more
\* often than red, the orange/red correction reassigns only orange cells on
\* an edge or corner position to red, and at most as many cells as orange
\* exceeds red.
C19_OrangeToRedCapped ==
    (/\ countOf(gridInput, "orange") > 0
     /\ countOf(gridInput, "red") > 0
     /\ countOf(gridInput, "orange") > countOf(gridInput, "red"))
    => /\ \A c \in reassigned(gridInput) :
            /\ gridInput[c[1]][c[2]] = "orange"
            /\ validateColorConfusion(gridInput)[c[1]][c[2]] = "red"
            /\ isEdgeOrCorner(c[1], c[2])
       /\ Cardinality(reassigned(gridInput))
            <= countOf(gridInput, "orange") - countOf(gridInput, "red")

\* C21: validateColorConfusion, on the grid the corrector is given and on the
\* grid validateAndCorrectColors hands it, turns every white cell yellow and
\* every yellow cell white when the centre cell is white and some other cell
\* is yellow, and otherwise returns every white and every yellow cell as it
\* was.
C21_WhiteYellowSwap ==
    \A colors \in {gridInput, validateAndCorrectColors(gridInput)} :
        IF colors[1][1] = "white" /\ countOf(colors, "yellow") > 0
        THEN \A c \in GridCells :
                /\ colors[c[1]][c[2]] = "white"
                        => validateColorConfusion(colors)[c[1]][c[2]] = "yellow"
                /\ colors[c[1]][c[2]] = "yellow"
                        => validateColorConfusion(colors)[c[1]][c[2]] = "white"
        ELSE \A c \in GridCells :
                colors[c[1]][c[2]] \in {"white", "yellow"}
                        => validateColorConfusion(colors)[c[1]][c[2]] = colors[c[1]][c[2]]

\* the corrector has run on a grid with a white centre and a yellow cell, and
\* the grid it returned has the two colours swapped
C21_Witness ==
    /\ runs >= 1
    /\ gridInput[1][1] = "white"
    /\ gridInput[0][0] = "yellow"
    /\ validateColorConfusion(gridInput)[1][1] = "yellow"
    /\ validateColorConfusion(gridInput)[0][0] = "white"

\* C10: six captures whose nine cells are all classified with the colour of
\* the face they are stored under (green front, blue back, white up, yellow
\* down, red right, orange left) give a cube whose faces are uniformly of
\* those colours.
C10_UniformCaptures ==
    (/\ activeTab = "cube"
     /\ DOMAIN deliveredFrom = FaceNames
     /\ \A f \in FaceNames : deliveredFrom[f] = UniformGrid(SolvedColor[f]))
    => \A f \in FaceNames : capturedCubeData[f].colors = UniformGrid(SolvedColor[f])

\* C24: the cube data onCubeCaptured is given holds, for each of the six
\* faces, a grid of three rows that a save stored for that face: no face is
\* the default { colors: [] }.
C24_DeliveredFacesSaved ==
    activeTab = "cube" =>
        \A f \in FaceNames :
            /\ ArrLen(capturedCubeData[f].colors) = 3
            /\ f \in DOMAIN deliveredFrom

\* what resetCapture leaves; resetCapture taken in such a state changes
\* nothing, so every such state is one that follows a resetCapture
isReset ==
    /\ currentFaceIndex = 0
    /\ capturedFaces = NoFaces
    /\ captureProgress = 0
    /\ ~isProcessing

\* C25: from a state resetCapture leaves (currentFaceIndex 0, capturedFaces
\* empty, captureProgress 0, isProcessing false), every step that is not an
\* accepted save leads to such a state again, also when a timer of an
\* earlier save is still pending.
C25_ResetHolds ==
    [][(isReset /\ saves' = saves) => isReset']_vars

\* C11: a capture with zero valid detections has alignment score exactly 0,
\* whatever labels its nine cells carry.
C11_ZeroDetectionsZeroScore ==
    (analysedBy # "none" /\ analysis.validDetections = 0) => analysis.alignmentScore = 0

\* the score the formula of C12 gives, in units of 1/900:
\* min(100, 60 v / 9 + min(30, 30 avgConfidence) + min(10, 2 unique)), with
\* avgConfidence the mean over the nine cells of the valid confidences
statedScore(fr, colors) ==
    smaller(90000,
            6000 * Cardinality(validDetections(fr))
              + smaller(27000, 30 * sumOver(validDetections(fr), fr.confidence))
              + 900 * smaller(10, 2 * Cardinality(uniqueColors(colors))))

\* C12: the alignment score published for a capture attempt equals
\* min(100, 60 (validDetections / 9) + min(30, 30 avgConfidence)
\* + min(10, 2 uniqueColorCount)), so a face whose nine cells are validly
\* detected as one colour scores less than 100.
C12_PublishedScore ==
    frame # NoFrame =>
        /\ alignmentScore = statedScore(frame, faceColors)
        /\ (Cardinality(validDetections(frame)) = 9
              /\ Cardinality(uniqueColors(frame.labels)) = 1) => alignmentScore < 90000

C20_ThrottleRange ==
    /\ targetFPS = StartFPS
    /\ [][/\ targetFPS' \in 16..40
          /\ targetFPS' # targetFPS =>
               \/ targetFPS' = StartFPS
               \/ processingTime > 50 /\ targetFPS' = targetFPS - 2
               \/ processingTime < 30 /\ targetFPS' = targetFPS + 1]_vars

C20_Witness ==
    /\ targetFPS = 16
    /\ processingTime > 50
    /\ pc = "idle"

----------------------------------------------------------------------------
(* Properties of the solvers *)

\* the cube data passes the sticker count of analyzeCubeStateForKociemba
has54Stickers(cubeData) ==
    totalStickers(FaceLetters, convertCubeDataToKociembaFormat(cubeData)) = 54

\* C15 as stated: each solver returns the same move list for any two cube
\* data a and b.
C15_SolversIgnoreState ==
    /\ lblMoves # NoMoves => lblMoves[1] = lblMoves[2]
    /\ kociembaMoves # NoMoves => kociembaMoves[1] = kociembaMoves[2]

\* C15: getBasicLBLMoves returns the same move list for any two cube data;
\* getKociembaMoves returns the same move list for any two cube data that
\* agree on holding 54 stickers once the absent faces are filled in, and the
\* list is empty exactly when they do not hold 54.
C15_SolversIgnoreColours ==
    /\ lblMoves # NoMoves => lblMoves[1] = lblMoves[2]
    /\ kociembaMoves # NoMoves =>
        /\ has54Stickers(solverA) = has54Stickers(solverB) => kociembaMoves[1] = kociembaMoves[2]
        /\ (kociembaMoves[1] = <<>>) = ~has54Stickers(solverA)
        /\ (kociembaMoves[2] = <<>>) = ~has54Stickers(solverB)

C15_Witness ==
    /\ lblMoves # NoMoves
    /\ kociembaMoves # NoMoves
    /\ solverA = DigitState(1)
    /\ solverB = UnknownState
    /\ Len(kociembaMoves[1]) > 0

----------------------------------------------------------------------------
(* Properties of the classifier *)

\* C16: every confidence computed for a label on a sample lies between 0 and
\* 1: the one analyzeColorsOptimized keeps for the cell, the one of
\* getColorConfidenceRevolutionary for any label, and the weighted one of
\* getColorConfidenceUltraAccurate that the overlay shows.
C16_ConfidenceInUnitInterval ==
    /\ cell # <<>> => cell[1].confidence \in 0..Unit
    /\ labelConfidence # <<>> => labelConfidence[1] \in 0..Unit
    /\ overlay # <<>> => overlay[1] \in 0..Unit

\* C17: a sample that is the reference colour of a label is classified as
\* that label, with a confidence over 0.8.
C17_ReferenceColoursClassified ==
    \A color \in CubeColors :
        (pixel = referenceColors[color] /\ cell # <<>>)
            => cell[1].color = color /\ cell[1].confidence > 8000

----------------------------------------------------------------------------
(* Properties of the sampler *)

\* the cells none of whose sample points lies on the canvas
offFrame(c) ==
    \A p \in samplePoints(cellCenter(gridBounds, mirrorMode, c[1], c[2])[1],
                          cellCenter(gridBounds, mirrorMode, c[1], c[2])[2],
                          gridBounds.width \div 3) : ~inCanvas(canvas, p)

\* C13: for a cell with no sample point on the canvas the sampler returns
\* null, the cell is labelled unknown before and after the corrections, it
\* is not among the valid detections, and the analysis returns three rows of
\* three labels.
C13_OffFrameCellUnknown ==
    (canvasAnalysis # NotAnalysed /\ gridBounds # NoGridBounds) =>
        /\ \A c \in GridCells :
              offFrame(c) =>
                /\ sampleColorOptimized(canvas,
                        cellCenter(gridBounds, mirrorMode, c[1], c[2])[1],
                        cellCenter(gridBounds, mirrorMode, c[1], c[2])[2],
                        gridBounds.width \div 3) = <<>>
                /\ canvasFrame.labels[c[1]][c[2]] = "unknown"
                /\ canvasAnalysis[1].colors[c[1]][c[2]] = "unknown"
                /\ c \notin validDetections(canvasFrame)
        /\ canvasAnalysis[1].validDetections
              <= 9 - Cardinality({c \in GridCells : offFrame(c)})
        /\ DOMAIN canvasAnalysis[1].colors = 0..2
        /\ \A i \in 0..2 : DOMAIN canvasAnalysis[1].colors[i] = 0..2

\* a readable canvas analysed under a grid that leaves some cells off the
\* canvas and some on it, the latter counted as valid detections
C13_Witness ==
    /\ canvasAnalysis # NotAnalysed
    /\ gridBounds # NoGridBounds
    /\ canvas.readable
    /\ \E c \in GridCells : offFrame(c)
    /\ \E c \in GridCells : ~offFrame(c) /\ c \in validDetections(canvasFrame)


----------------------------------------------------------------------------
(* Properties of the demonstration solve *)

\* a step of a chain that stopSolving was invoked on
stoppedChainSteps ==
    \E k \in DOMAIN chains : chains[k].stopped /\ chains'[k] # chains[k]

\* C26: after stopSolving is invoked during a solve that handleSolve started,
\* the timer chain of that solve changes neither localCubeData nor the stored
\* capturedCubeData, and at no time is more than one rotation chain active,
\* also when Start is pressed again.
C26_StopEndsChain ==
    /\ [](Cardinality(activeChains) <= 1)
    /\ [][stoppedChainSteps => (localCubeData' = localCubeData /\ storage' = storage)]_vars


----------------------------------------------------------------------------
(* Properties of the animation system *)

\* C27: whenever no animation is running (isAnimating() is false), no flag
\* of faceAnimationStatus is set, so that animate(face) is accepted (returns
\* true) for every face.
C27_IdleAcceptsEveryFace ==
    ~isAnimating =>
        \A face \in FaceLetters :
            /\ ~faceAnimationStatus[face]
            /\ animateIn(faceAnimationStatus, currentAnimation, face, <<>>).returned

\* the moves applied in order
RECURSIVE applyAll(_, _)
applyAll(s, moves) ==
    IF moves = <<>> THEN s ELSE applyAll(apply(s, Head(moves)), Tail(moves))

\* the sequence has gone past its last move
sequenceComplete ==
    /\ sequence # NoSequence
    /\ sequence.waits = "nothing"
    /\ sequence.currentIndex >= Len(sequence.moves)

\* C28: once the animation of every move has completed, executeMoveSequence
\* has called onMoveComplete exactly once, with the state that applying all
\* the moves in order to cubeState gives.
C28_SequenceResult ==
    /\ Len(completions) <= 1
    /\ sequenceComplete =>
            completions = <<applyAll(sequence.cubeState, sequence.moves)>>


\* C29: for every face index 0..5, the face name under which the capture
\* flow stores an accepted capture (faceNames[currentFaceIndex]) is the face
\* that the faceMapping of the capture's data marks true.
C29_StoredUnderMappedFace ==
    \A name \in DOMAIN capturedFaces :
        \A f \in FaceNames : capturedFaces[name].faceMapping[f] <=> (f = name)

\* what a call of onSaveFace that takes the face does: a face is stored or
\* replaced, isProcessing is set, a timer is started
faceHanded ==
    \/ saves' # saves
    \/ \E name \in DOMAIN capturedFaces' :
            name \notin DOMAIN capturedFaces \/ capturedFaces'[name] # capturedFaces[name]
    \/ isProcessing' /\ ~isProcessing
    \/ Len(timers') > Len(timers)

\* C30: handleSave hands a face to onSaveFace only when at least 6 of the 9
\* cells of the current grid are not 'unknown' and the alignment score is
\* above the validation threshold (50, or 30 for face index 5); otherwise
\* onSaveFace is not called and no capture state changes.
C30_SaveNeedsValidFace ==
    [][faceHanded =>
            /\ Cardinality(validColors(faceColors)) >= 6
            /\ Cardinality(cellsOf(faceColors)) = 9
            /\ alignmentScore > (IF currentFaceIndex = 5 THEN 27000 ELSE 45000)]_vars

\* the face of index 5 was handed over on a score between the two thresholds
C30_Witness ==
    /\ faceNames[5] \in DOMAIN capturedFaces
    /\ capturedFaces[faceNames[5]].alignmentScore <= 45000

=============================================================================
